---- MODULE Spec2Model ----
(***************************************************************************)
(* StoryTeller: the story tree (story/tree.py), the page repository and    *)
(* karma points (story/page.py) and the Path cursor (story/path.py).       *)
(*                                                                         *)
(* TreeNode objects live in a heap `node` indexed by allocation order;     *)
(* None is the Python None reference.  Karma floats are counted in units   *)
(* of 1/Scale, so 1.0 is Scale units and every sum is exact.               *)
(***************************************************************************)
EXTENDS Integers, Sequences, FiniteSets, TLC

\* ---------------------------------------------------------------- bounds
\* TreeNode objects that may be allocated
MaxNodes == 3
\* page uuids are "0" .. "MaxUuid", written as the integers 0 .. MaxUuid
MaxUuid == 2
\* karma units per 1.0
Scale == 2

\* ---------------------------------------------------------------- values
None == 0

\* JSON null and Python None in an optional field; a value that is present
null == <<>>

some(value) == <<value>>

UUIDs == 0 .. MaxUuid

PageType == {"start", "action", "end"}

\* action texts a page may carry
ActionTexts == {"go", "stay"}

Max(a, b) == IF a >= b THEN a ELSE b

Min(a, b) == IF a <= b THEN a ELSE b

\* mutant: only the lower limit is applied
cap_lower_only(value) == Max(-Scale, value)

\* mutant: only the upper limit is applied
cap_upper_only(value) == Min(Scale, value)

\* KarmaPoints.cap
cap(value) == Max(-Scale, Min(Scale, value))

\* KarmaPoints.__init__: every field is capped on construction
KarmaPoints(t, h, s, c) ==
    [technology |-> cap(t), happiness |-> cap(h), safety |-> cap(s), control |-> cap(c)]

\* KarmaPoints.__add__
KarmaAdd(a, b) ==
    KarmaPoints(cap(a.technology + b.technology), cap(a.happiness + b.happiness),
                cap(a.safety + b.safety), cap(a.control + b.control))

\* mutant: the operands are taken in the wrong order
KarmaSub_reversed(a, b) ==
    KarmaPoints(cap(b.technology - a.technology), cap(b.happiness - a.happiness),
                cap(b.safety - a.safety), cap(b.control - a.control))

\* KarmaPoints.__sub__
KarmaSub(a, b) ==
    KarmaPoints(cap(a.technology - b.technology), cap(a.happiness - b.happiness),
                cap(a.safety - b.safety), cap(a.control - b.control))

\* field values handed to the constructor of KarmaPoints, some outside [-1, 1]
KarmaInputs == -(Scale + 1) .. (Scale + 1)

\* the right operands of the additions and subtractions
KarmaOperands == { KarmaPoints(x, -x, Scale, 0) : x \in KarmaInputs }

\* the contents (type, action text, karma) of the Page objects the model builds
PageKinds ==
    { [page_type |-> "start",  action |-> "go",   karma |-> KarmaPoints(Scale, 1, 0, -1)],
      [page_type |-> "action", action |-> "go",   karma |-> KarmaPoints(Scale, 1, 0, -1)],
      [page_type |-> "action", action |-> "stay", karma |-> KarmaPoints(-Scale, -1, Scale, 0)],
      [page_type |-> "end",    action |-> "go",   karma |-> KarmaPoints(-Scale, -1, Scale, 0)] }

\* Page objects handed to StoryTree.add_page
PageInputs ==
    { [uuid |-> u, page_type |-> k.page_type, action |-> k.action, karma |-> k.karma] :
        u \in UUIDs, k \in PageKinds }

\* labels handed to Path.take_action: page actions, synthesized start labels, an unknown one
StartLabel(uuid) == "Start " \o ToString(uuid)

LabelInputs == ActionTexts \cup { StartLabel(u) : u \in UUIDs } \cup {"missing"}

\* ---------------------------------------------------------------- state
VARIABLES
    node,               \* heap of TreeNode: id -> [page_uuid, parent, children]
    root,               \* StoryTree.root
    pages,              \* PageRepository.pages: uuid -> Page
    pathOpen,           \* a Path object has been constructed
    current_page_node,  \* Path._current_page_node
    pages_uuid,         \* Path._pages_uuid
    actions_taken,      \* Path._actions_taken
    is_finished,        \* Path._is_finished
    second_path,        \* a second Path object over the same tree: its fields
    current_state,      \* StateMachine.current_state
    in_end_state,       \* StateMachine.in_end_state
    running,            \* App._running
    last                \* the last call: [op, arg, err, ret]

treeVars == <<node, root, pages>>

pathVars == <<pathOpen, current_page_node, pages_uuid, actions_taken, is_finished>>

appVars == <<current_state, in_end_state, running>>

vars == <<node, root, pages, pathOpen, current_page_node, pages_uuid, actions_taken,
          is_finished, second_path, current_state, in_end_state, running, last>>

\* the fields of a Path object that has not been constructed
no_path ==
    [pathOpen |-> FALSE, current_page_node |-> None, pages_uuid |-> <<>>,
     actions_taken |-> <<>>, is_finished |-> FALSE]

\* no second Path; StateMachine.__init__ and App.__init__ (base.py lines 234-235, 287)
InitApp ==
    /\ second_path = no_path
    /\ current_state = null
    /\ in_end_state = FALSE
    /\ running = FALSE

Call(op, arg, err, ret) == [op |-> op, arg |-> arg, err |-> err, ret |-> ret]

\* TreeNode.__init__
TreeNode(page_uuid, parent) == [page_uuid |-> page_uuid, parent |-> parent, children |-> <<>>]

\* PageRepository.get_page / StoryTree.get_page: None on a miss
get_page(uuid) == IF uuid \in DOMAIN pages THEN pages[uuid] ELSE None

\* the uuid a new Page gets by default (uuid4): one the repository does not hold,
\* taken in the order 0, 1, 2, ...
new_uuids ==
    { u \in UUIDs : u \notin DOMAIN pages /\ \A v \in 0 .. u - 1 : v \in DOMAIN pages }

\* StoryTreeFactory.create_empty followed by no Path
Init ==
    /\ node = <<>>
    /\ root = None
    /\ pages = <<>>
    /\ pathOpen = FALSE
    /\ current_page_node = None
    /\ pages_uuid = <<>>
    /\ actions_taken = <<>>
    /\ is_finished = FALSE
    /\ InitApp
    /\ last = Call("create_empty", None, "none", None)

\* ---------------------------------------------------------------- StoryTree
\* mutant: the node is created and attached before the repository refuses the page
add_page_attach_first(page, parent_node) ==
    /\ Len(node) < MaxNodes
    /\ LET new_node == Len(node) + 1
           withNew == Append(node, TreeNode(page.uuid, parent_node))
       IN /\ IF parent_node = None
             THEN /\ root' = new_node
                  /\ node' = withNew
             ELSE /\ root' = root
                  /\ node' = [withNew EXCEPT ![parent_node].children = Append(@, new_node)]
          /\ IF page.uuid \in DOMAIN pages
             THEN /\ pages' = pages
                  /\ last' = Call("add_page", page.uuid, "ValueError", None)
             ELSE /\ pages' = (page.uuid :> page) @@ pages
                  /\ last' = Call("add_page", page.uuid, "none", None)
    /\ UNCHANGED pathVars
    /\ UNCHANGED <<second_path, appVars>>

\* mutant: the new node is listed by its parent but has no parent link
add_page_unlinked(page, parent_node) ==
    /\ Len(node) < MaxNodes
    /\ IF page.uuid \in DOMAIN pages
       THEN /\ UNCHANGED treeVars
            /\ last' = Call("add_page", page.uuid, "ValueError", None)
       ELSE LET new_node == Len(node) + 1
                withNew == Append(node, TreeNode(page.uuid, None))
            IN /\ pages' = (page.uuid :> page) @@ pages
               /\ IF parent_node = None
                  THEN /\ root' = new_node
                       /\ node' = withNew
                  ELSE /\ root' = root
                       /\ node' = [withNew EXCEPT ![parent_node].children = Append(@, new_node)]
               /\ last' = Call("add_page", page.uuid, "none", None)
    /\ UNCHANGED pathVars
    /\ UNCHANGED <<second_path, appVars>>

\* StoryTree.add_page(page, parent_node)
add_page(page, parent_node) ==
    /\ Len(node) < MaxNodes
    /\ IF page.uuid \in DOMAIN pages
       THEN /\ UNCHANGED treeVars
            /\ last' = Call("add_page", page.uuid, "ValueError", None)
       ELSE LET new_node == Len(node) + 1
                withNew == Append(node, TreeNode(page.uuid, parent_node))
            IN /\ pages' = (page.uuid :> page) @@ pages
               /\ IF parent_node = None
                  THEN /\ root' = new_node
                       /\ node' = withNew
                  ELSE /\ root' = root
                       /\ node' = [withNew EXCEPT ![parent_node].children = Append(@, new_node)]
               /\ last' = Call("add_page", page.uuid, "none", None)
    /\ UNCHANGED pathVars
    /\ UNCHANGED <<second_path, appVars>>

\* mutant: the children are searched from the last to the first
RECURSIVE search_page_node_backwards(_, _)
search_page_node_backwards(uuid, n) ==
    IF n = None
    THEN None
    ELSE IF node[n].page_uuid = uuid
    THEN n
    ELSE LET results == [i \in 1 .. Len(node[n].children) |->
                             search_page_node_backwards(uuid, node[n].children[i])]
             found == { i \in 1 .. Len(node[n].children) : results[i] # None }
         IN IF found = {}
            THEN None
            ELSE results[CHOOSE i \in found : \A j \in found : j <= i]

\* StoryTree.search_page_node(uuid, node): depth first, a node before its
\* children, the children in list order; None when no node carries uuid
RECURSIVE search_page_node(_, _)
search_page_node(uuid, n) ==
    IF n = None
    THEN None
    ELSE IF node[n].page_uuid = uuid
    THEN n
    ELSE LET results == [i \in 1 .. Len(node[n].children) |->
                             search_page_node(uuid, node[n].children[i])]
             found == { i \in 1 .. Len(node[n].children) : results[i] # None }
         IN IF found = {}
            THEN None
            ELSE results[CHOOSE i \in found : \A j \in found : i <= j]

\* mutant: the children of the removed node are not visited
cascade_remove_node_only(n) == <<n>>

\* mutant: the node itself is left out of what is removed
RECURSIVE cascade_remove_children(_)
cascade_remove_children(n) ==
    LET RECURSIVE over(_)
        over(children) ==
            IF children = <<>>
            THEN <<>>
            ELSE (cascade_remove_children(Head(children)) \o <<Head(children)>>)
                     \o over(Tail(children))
    IN over(node[n].children)

\* TreeNode._cascade_remove(node): the nodes whose parent link is cleared, in
\* the order in which their uuids are collected (children first)
RECURSIVE cascade_remove(_)
cascade_remove(n) ==
    LET RECURSIVE over(_)
        over(children) ==
            IF children = <<>>
            THEN <<>>
            ELSE cascade_remove(Head(children)) \o over(Tail(children))
    IN over(node[n].children) \o <<n>>

\* mutant: the removed child stays in the children list
remove_node_keep_child(n, child_uuid) ==
    LET children == node[n].children
        matching == { i \in 1 .. Len(children) : node[children[i]].page_uuid = child_uuid }
    IN [new_children |-> children,
        removed |-> IF matching = {}
                    THEN <<>>
                    ELSE cascade_remove(children[CHOOSE i \in matching :
                                                     \A j \in matching : j <= i])]

\* mutant: removed_child is the last child of the loop when none matched
remove_node_last_child(n, child_uuid) ==
    LET children == node[n].children
        matching == { i \in 1 .. Len(children) : node[children[i]].page_uuid = child_uuid }
        new_children == SelectSeq(children, LAMBDA c : node[c].page_uuid # child_uuid)
    IN [new_children |-> new_children,
        removed |-> IF children = <<>>
                    THEN <<>>
                    ELSE IF matching = {}
                    THEN cascade_remove(children[Len(children)])
                    ELSE cascade_remove(children[CHOOSE i \in matching :
                                                     \A j \in matching : j <= i])]

\* TreeNode.remove_node(child_uuid) on node n: the children that are kept and
\* the nodes removed with the last child that carries child_uuid
remove_node(n, child_uuid) ==
    LET children == node[n].children
        matching == { i \in 1 .. Len(children) : node[children[i]].page_uuid = child_uuid }
        new_children == SelectSeq(children, LAMBDA c : node[c].page_uuid # child_uuid)
    IN [new_children |-> new_children,
        removed |-> IF matching = {}
                    THEN <<>>
                    ELSE cascade_remove(children[CHOOSE i \in matching :
                                                     \A j \in matching : j <= i])]

\* the loop of StoryTree.remove_page over PageRepository.remove_page: the
\* repository that is left and the error that stopped the loop, if any
RECURSIVE remove_pages(_, _)
remove_pages(repository, removed_uuids) ==
    IF removed_uuids = <<>>
    THEN [pages |-> repository, err |-> "none"]
    ELSE IF Head(removed_uuids) \notin DOMAIN repository
    THEN [pages |-> repository, err |-> "ValueError"]
    ELSE remove_pages([u \in DOMAIN repository \ {Head(removed_uuids)} |-> repository[u]],
                      Tail(removed_uuids))

\* mutant: an unknown uuid is ignored without an error
remove_page_silent(uuid) ==
    /\ LET n == search_page_node(uuid, root)
       IN IF n = None
          THEN /\ UNCHANGED treeVars
               /\ last' = Call("remove_page", uuid, "none", None)
          ELSE IF node[n].parent = None
          THEN /\ root' = None
               /\ UNCHANGED <<node, pages>>
               /\ last' = Call("remove_page", uuid, "UnboundLocalError", None)
          ELSE LET r == remove_node(node[n].parent, uuid)
                   detached == { r.removed[i] : i \in 1 .. Len(r.removed) }
                   removed_uuids == [i \in 1 .. Len(r.removed) |-> node[r.removed[i]].page_uuid]
                   left == remove_pages(pages, removed_uuids)
               IN /\ node' = [m \in DOMAIN node |->
                                 IF m = node[n].parent
                                 THEN [node[m] EXCEPT !.children = r.new_children]
                                 ELSE IF m \in detached
                                 THEN [node[m] EXCEPT !.parent = None]
                                 ELSE node[m]]
                  /\ root' = root
                  /\ pages' = left.pages
                  /\ last' = Call("remove_page", uuid, left.err, None)
    /\ UNCHANGED pathVars
    /\ UNCHANGED <<second_path, appVars>>

\* StoryTree.remove_page(uuid)
remove_page(uuid) ==
    /\ LET n == search_page_node(uuid, root)
       IN IF n = None
          THEN /\ UNCHANGED treeVars
               /\ last' = Call("remove_page", uuid, "ValueError", None)
          ELSE IF node[n].parent = None
          THEN \* removed_uuids is read before it was ever assigned
               /\ root' = None
               /\ UNCHANGED <<node, pages>>
               /\ last' = Call("remove_page", uuid, "UnboundLocalError", None)
          ELSE LET r == remove_node(node[n].parent, uuid)
                   detached == { r.removed[i] : i \in 1 .. Len(r.removed) }
                   removed_uuids == [i \in 1 .. Len(r.removed) |-> node[r.removed[i]].page_uuid]
                   left == remove_pages(pages, removed_uuids)
               IN /\ node' = [m \in DOMAIN node |->
                                 IF m = node[n].parent
                                 THEN [node[m] EXCEPT !.children = r.new_children]
                                 ELSE IF m \in detached
                                 THEN [node[m] EXCEPT !.parent = None]
                                 ELSE node[m]]
                  /\ root' = root
                  /\ pages' = left.pages
                  /\ last' = Call("remove_page", uuid, left.err, None)
    /\ UNCHANGED pathVars
    /\ UNCHANGED <<second_path, appVars>>

\* ---------------------------------------------------------------- Path
\* mutant: the history of actions starts empty
Path_no_first_action ==
    /\ ~pathOpen
    /\ IF root = None
       THEN /\ UNCHANGED pathVars
            /\ last' = Call("Path", None, "ValueError", None)
       ELSE IF node[root].page_uuid \notin DOMAIN pages
       THEN /\ UNCHANGED pathVars
            /\ last' = Call("Path", None, "AttributeError", None)
       ELSE /\ pathOpen' = TRUE
            /\ current_page_node' = root
            /\ is_finished' = FALSE
            /\ pages_uuid' = <<node[root].page_uuid>>
            /\ actions_taken' = <<>>
            /\ last' = Call("Path", None, "none", None)
    /\ UNCHANGED treeVars
    /\ UNCHANGED <<second_path, appVars>>

\* mutant: a Path over an END root starts finished
Path_finished_from_root ==
    /\ ~pathOpen
    /\ IF root = None
       THEN /\ UNCHANGED pathVars
            /\ last' = Call("Path", None, "ValueError", None)
       ELSE IF node[root].page_uuid \notin DOMAIN pages
       THEN /\ UNCHANGED pathVars
            /\ last' = Call("Path", None, "AttributeError", None)
       ELSE /\ pathOpen' = TRUE
            /\ current_page_node' = root
            /\ is_finished' = (get_page(node[root].page_uuid).page_type = "end")
            /\ pages_uuid' = <<node[root].page_uuid>>
            /\ actions_taken' = <<get_page(node[root].page_uuid).action>>
            /\ last' = Call("Path", None, "none", None)
    /\ UNCHANGED treeVars
    /\ UNCHANGED <<second_path, appVars>>

\* Path.__init__(story_tree)
Path ==
    /\ ~pathOpen
    /\ IF root = None
       THEN /\ UNCHANGED pathVars
            /\ last' = Call("Path", None, "ValueError", None)
       ELSE IF node[root].page_uuid \notin DOMAIN pages
       THEN \* get_page(...) is None: reading .action raises, no Path object results
            /\ UNCHANGED pathVars
            /\ last' = Call("Path", None, "AttributeError", None)
       ELSE /\ pathOpen' = TRUE
            /\ current_page_node' = root
            /\ is_finished' = FALSE
            /\ pages_uuid' = <<node[root].page_uuid>>
            /\ actions_taken' = <<get_page(node[root].page_uuid).action>>
            /\ last' = Call("Path", None, "none", None)
    /\ UNCHANGED treeVars
    /\ UNCHANGED <<second_path, appVars>>

\* mutant: the child of a START page is offered under the action of its page
child_action_plain(child) == get_page(node[child].page_uuid).action

\* the label Path.view_action_options computes for one child (path.py lines 43-47)
child_action(child) ==
    LET child_page == get_page(node[child].page_uuid)
    IN IF child_page.page_type = "start"
       THEN StartLabel(child_page.uuid)
       ELSE child_page.action

\* mutant: a label that is already in the dict keeps its first child
RECURSIVE actions_dict_first_wins(_)
actions_dict_first_wins(children) ==
    IF children = <<>>
    THEN <<>>
    ELSE (child_action(Head(children)) :> Head(children))
             @@ actions_dict_first_wins(Tail(children))

\* the dict Path.view_action_options builds over a children list: a later child
\* overwrites an earlier one under the same label
RECURSIVE actions_dict(_)
actions_dict(children) ==
    IF children = <<>>
    THEN <<>>
    ELSE LET child == children[Len(children)]
         IN (child_action(child) :> child) @@ actions_dict(SubSeq(children, 1, Len(children) - 1))

\* Path.view_action_options raises when there is no current node or a child has no page
view_raises ==
    \/ current_page_node = None
    \/ \E i \in 1 .. Len(node[current_page_node].children) :
           node[node[current_page_node].children[i]].page_uuid \notin DOMAIN pages

\* Path.view_action_options(), where it returns
view_action_options == actions_dict(node[current_page_node].children)

\* the call Path.view_action_options()
ViewActionOptions ==
    /\ pathOpen
    /\ last' = IF view_raises
               THEN Call("view_action_options", None, "AttributeError", None)
               ELSE Call("view_action_options", None, "none", view_action_options)
    /\ UNCHANGED <<treeVars, pathVars>>
    /\ UNCHANGED <<second_path, appVars>>

\* mutant: a START page ends the path as well
finished_after_start(next_page, finished) ==
    IF next_page.page_type \in {"end", "start"} THEN TRUE ELSE finished

\* mutant: the flag follows the type of the new page
finished_after_reset(next_page, finished) == next_page.page_type = "end"

\* Path._is_finished after the test on the new page (path.py lines 61-62)
finished_after(next_page, finished) ==
    IF next_page.page_type = "end" THEN TRUE ELSE finished

\* mutant: the label is recorded before it is looked up
take_action_record_first(action) ==
    /\ pathOpen
    /\ IF view_raises
       THEN /\ UNCHANGED pathVars
            /\ last' = Call("take_action", action, "AttributeError", None)
       ELSE LET actions == view_action_options
            IN IF action \notin DOMAIN actions
               THEN /\ actions_taken' = Append(actions_taken, action)
                    /\ UNCHANGED <<pathOpen, current_page_node, pages_uuid, is_finished>>
                    /\ last' = Call("take_action", action, "ValueError", None)
               ELSE LET next_page_node == actions[action]
                        next_uuid == node[next_page_node].page_uuid
                    IN /\ current_page_node' = next_page_node
                       /\ pages_uuid' = Append(pages_uuid, next_uuid)
                       /\ actions_taken' = Append(actions_taken, action)
                       /\ pathOpen' = pathOpen
                       /\ IF next_uuid \notin DOMAIN pages
                          THEN /\ is_finished' = is_finished
                               /\ last' = Call("take_action", action, "AttributeError", None)
                          ELSE /\ is_finished' = finished_after(get_page(next_uuid), is_finished)
                               /\ last' = Call("take_action", action, "none", is_finished')
    /\ UNCHANGED treeVars
    /\ UNCHANGED <<second_path, appVars>>

\* mutant: the list of visited pages is one list that every Path object shares
take_action_shared_list(action) ==
    /\ pathOpen
    /\ IF view_raises
       THEN /\ UNCHANGED <<pathVars, second_path>>
            /\ last' = Call("take_action", action, "AttributeError", None)
       ELSE LET actions == view_action_options
            IN IF action \notin DOMAIN actions
               THEN /\ UNCHANGED <<pathVars, second_path>>
                    /\ last' = Call("take_action", action, "ValueError", None)
               ELSE LET next_page_node == actions[action]
                        next_uuid == node[next_page_node].page_uuid
                    IN /\ current_page_node' = next_page_node
                       /\ pages_uuid' = Append(pages_uuid, next_uuid)
                       /\ second_path' = [second_path EXCEPT
                                              !.pages_uuid = Append(@, next_uuid)]
                       /\ actions_taken' = Append(actions_taken, action)
                       /\ pathOpen' = pathOpen
                       /\ IF next_uuid \notin DOMAIN pages
                          THEN /\ is_finished' = is_finished
                               /\ last' = Call("take_action", action, "AttributeError", None)
                          ELSE /\ is_finished' = finished_after(get_page(next_uuid), is_finished)
                               /\ last' = Call("take_action", action, "none", is_finished')
    /\ UNCHANGED <<treeVars, appVars>>

\* Path.take_action(action)
take_action(action) ==
    /\ pathOpen
    /\ IF view_raises
       THEN /\ UNCHANGED pathVars
            /\ last' = Call("take_action", action, "AttributeError", None)
       ELSE LET actions == view_action_options
            IN IF action \notin DOMAIN actions
               THEN /\ UNCHANGED pathVars
                    /\ last' = Call("take_action", action, "ValueError", None)
               ELSE LET next_page_node == actions[action]
                        next_uuid == node[next_page_node].page_uuid
                    IN /\ current_page_node' = next_page_node
                       /\ pages_uuid' = Append(pages_uuid, next_uuid)
                       /\ actions_taken' = Append(actions_taken, action)
                       /\ pathOpen' = pathOpen
                       /\ IF next_uuid \notin DOMAIN pages
                          THEN /\ is_finished' = is_finished
                               /\ last' = Call("take_action", action, "AttributeError", None)
                          ELSE /\ is_finished' = finished_after(get_page(next_uuid), is_finished)
                               /\ last' = Call("take_action", action, "none", is_finished')
    /\ UNCHANGED treeVars
    /\ UNCHANGED <<second_path, appVars>>

\* the test of Path.go_back that refuses the call (path.py line 67)
cannot_go_back(uuids) == Len(uuids) = 2

\* list.pop() without its result
pop(list) == SubSeq(list, 1, Len(list) - 1)

\* mutant: going back also detaches the node that is left from its parent
go_back_detach ==
    /\ pathOpen
    /\ IF cannot_go_back(pages_uuid)
       THEN /\ UNCHANGED <<pathVars, treeVars>>
            /\ last' = Call("go_back", None, "ValueError", None)
       ELSE IF pages_uuid = <<>>
       THEN /\ UNCHANGED <<pathVars, treeVars>>
            /\ last' = Call("go_back", None, "IndexError", None)
       ELSE IF actions_taken = <<>>
       THEN /\ pages_uuid' = pop(pages_uuid)
            /\ UNCHANGED <<pathOpen, current_page_node, actions_taken, is_finished, treeVars>>
            /\ last' = Call("go_back", None, "IndexError", None)
       ELSE IF current_page_node = None
       THEN /\ pages_uuid' = pop(pages_uuid)
            /\ actions_taken' = pop(actions_taken)
            /\ UNCHANGED <<pathOpen, current_page_node, is_finished, treeVars>>
            /\ last' = Call("go_back", None, "AttributeError", None)
       ELSE /\ pages_uuid' = pop(pages_uuid)
            /\ actions_taken' = pop(actions_taken)
            /\ current_page_node' = node[current_page_node].parent
            /\ is_finished' = FALSE
            /\ pathOpen' = pathOpen
            /\ node' = [node EXCEPT ![current_page_node].parent = None]
            /\ UNCHANGED <<root, pages>>
            /\ last' = Call("go_back", None, "none", None)
    /\ UNCHANGED <<second_path, appVars>>

\* Path.go_back()
go_back ==
    /\ pathOpen
    /\ IF cannot_go_back(pages_uuid)
       THEN /\ UNCHANGED pathVars
            /\ last' = Call("go_back", None, "ValueError", None)
       ELSE IF pages_uuid = <<>>
       THEN \* pop from an empty list
            /\ UNCHANGED pathVars
            /\ last' = Call("go_back", None, "IndexError", None)
       ELSE IF actions_taken = <<>>
       THEN /\ pages_uuid' = pop(pages_uuid)
            /\ UNCHANGED <<pathOpen, current_page_node, actions_taken, is_finished>>
            /\ last' = Call("go_back", None, "IndexError", None)
       ELSE IF current_page_node = None
       THEN /\ pages_uuid' = pop(pages_uuid)
            /\ actions_taken' = pop(actions_taken)
            /\ UNCHANGED <<pathOpen, current_page_node, is_finished>>
            /\ last' = Call("go_back", None, "AttributeError", None)
       ELSE /\ pages_uuid' = pop(pages_uuid)
            /\ actions_taken' = pop(actions_taken)
            /\ current_page_node' = node[current_page_node].parent
            /\ is_finished' = FALSE
            /\ pathOpen' = pathOpen
            /\ last' = Call("go_back", None, "none", None)
    /\ UNCHANGED treeVars
    /\ UNCHANGED <<second_path, appVars>>

\* the loop of Path.compute_karma over the visited uuids (path.py lines 77-81)
RECURSIVE karma_loop(_, _)
karma_loop(karma_points, uuids) ==
    IF uuids = <<>>
    THEN karma_points
    ELSE karma_loop(KarmaAdd(karma_points, get_page(Head(uuids)).karma), Tail(uuids))

\* mutant: a visited page that is not in the repository is left out of the sum
compute_karma_skip_missing ==
    /\ pathOpen
    /\ last' = Call("compute_karma", None, "none",
                    karma_loop(KarmaPoints(0, 0, 0, 0),
                               SelectSeq(pages_uuid, LAMBDA uuid : uuid \in DOMAIN pages)))
    /\ UNCHANGED <<treeVars, pathVars>>
    /\ UNCHANGED <<second_path, appVars>>

\* the call Path.compute_karma()
compute_karma ==
    /\ pathOpen
    /\ last' = IF \E i \in 1 .. Len(pages_uuid) : pages_uuid[i] \notin DOMAIN pages
               THEN Call("compute_karma", None, "ValueError", None)
               ELSE Call("compute_karma", None, "none",
                         karma_loop(KarmaPoints(0, 0, 0, 0), pages_uuid))
    /\ UNCHANGED <<treeVars, pathVars>>
    /\ UNCHANGED <<second_path, appVars>>

\* the call Path.get_pages()
get_pages ==
    /\ pathOpen
    /\ last' = Call("get_pages", None, "none",
                    [i \in 1 .. Len(pages_uuid) |-> get_page(pages_uuid[i])])
    /\ UNCHANGED <<treeVars, pathVars>>
    /\ UNCHANGED <<second_path, appVars>>

\* the call Path.get_actions_taken()
get_actions_taken ==
    /\ pathOpen
    /\ last' = Call("get_actions_taken", None, "none",
                    [i \in 1 .. Len(actions_taken) |-> actions_taken[i]])
    /\ UNCHANGED <<treeVars, pathVars>>
    /\ UNCHANGED <<second_path, appVars>>

\* the call Path.get_current_page(): the page of the current node, None when
\* the repository does not hold it
get_current_page ==
    /\ pathOpen
    /\ last' = IF current_page_node = None
               THEN Call("get_current_page", None, "AttributeError", None)
               ELSE Call("get_current_page", None, "none",
                         get_page(node[current_page_node].page_uuid))
    /\ UNCHANGED <<treeVars, pathVars>>
    /\ UNCHANGED <<second_path, appVars>>

\* the fields of the Path object the calls are made on
this_path ==
    [pathOpen |-> pathOpen, current_page_node |-> current_page_node,
     pages_uuid |-> pages_uuid, actions_taken |-> actions_taken,
     is_finished |-> is_finished]

\* the caller turns to its other Path object: the calls that follow are made
\* on it (self is the other object), and the one it leaves keeps its fields
other_path ==
    /\ pathOpen' = second_path.pathOpen
    /\ current_page_node' = second_path.current_page_node
    /\ pages_uuid' = second_path.pages_uuid
    /\ actions_taken' = second_path.actions_taken
    /\ is_finished' = second_path.is_finished
    /\ second_path' = this_path
    /\ last' = Call("other_path", None, "none", None)
    /\ UNCHANGED <<treeVars, appVars>>

\* ---------------------------------------------------------------- TreeNode documents
\* the node documents {"page_uuid": ..., "children": [...]} of n nodes, and
\* the lists of documents of n nodes in all
RECURSIVE Documents(_), DocumentLists(_)
Documents(n) ==
    { [page_uuid |-> u, children |-> c] : u \in UUIDs, c \in DocumentLists(n - 1) }

DocumentLists(n) ==
    IF n = 0
    THEN { <<>> }
    ELSE UNION { { <<d>> \o rest : d \in Documents(k), rest \in DocumentLists(n - k) } :
                 k \in 1 .. n }

\* the documents handed to TreeNode.from_dict
DocumentInputs == UNION { Documents(n) : n \in 1 .. MaxNodes }

\* TreeNode.from_dict(node_data, parent) on the heap: the heap with the new
\* nodes and the node that is returned; add_nodes is its loop over the children
RECURSIVE from_dict(_, _, _), add_nodes(_, _, _)
from_dict(heap, node_data, parent) ==
    LET new_node == Len(heap) + 1
    IN [heap |-> add_nodes(Append(heap, TreeNode(node_data.page_uuid, parent)),
                           new_node, node_data.children),
        node |-> new_node]

add_nodes(heap, n, children) ==
    IF children = <<>>
    THEN heap
    ELSE LET built == from_dict(heap, Head(children), n)
         IN add_nodes([built.heap EXCEPT ![built.node].parent = n,
                                         ![n].children = Append(@, built.node)],
                      n, Tail(children))

\* mutant: the children are written in reverse order
to_dict_reversed(heap, n) ==
    LET RECURSIVE document(_)
        document(m) ==
            [page_uuid |-> heap[m].page_uuid,
             children |-> [i \in 1 .. Len(heap[m].children) |->
                               document(heap[m].children[Len(heap[m].children) + 1 - i])]]
    IN document(n)

\* TreeNode.to_dict(node)
RECURSIVE to_dict(_, _)
to_dict(heap, n) ==
    [page_uuid |-> heap[n].page_uuid,
     children |-> [i \in 1 .. Len(heap[n].children) |-> to_dict(heap, heap[n].children[i])]]

\* a document, no tree and no Path
InitDocument ==
    /\ node = <<>>
    /\ root = None
    /\ pages = <<>>
    /\ pathOpen = FALSE
    /\ current_page_node = None
    /\ pages_uuid = <<>>
    /\ actions_taken = <<>>
    /\ is_finished = FALSE
    /\ InitApp
    /\ \E node_data \in DocumentInputs : last = Call("document", None, "none", node_data)

\* the call TreeNode.from_dict(node_data) on the document; the node it returns
\* becomes the root, as in StoryTreeFactory.from_json
FromDict ==
    /\ last.op = "document"
    /\ LET built == from_dict(node, last.ret, None)
       IN /\ node' = built.heap
          /\ root' = built.node
          /\ last' = Call("from_dict", last.ret, "none", built.node)
    /\ UNCHANGED <<pages, pathVars>>
    /\ UNCHANGED <<second_path, appVars>>

\* the call TreeNode.to_dict(node) on the node that from_dict returned
ToDict ==
    /\ last.op = "from_dict"
    /\ last' = Call("to_dict", last.ret, "none", to_dict(node, last.ret))
    /\ UNCHANGED <<treeVars, pathVars>>
    /\ UNCHANGED <<second_path, appVars>>

\* ---------------------------------------------------------------- KarmaPoints
\* the calls that return a KarmaPoints value
KarmaOps == {"KarmaPoints", "__add__", "__sub__"}

\* a KarmaPoints value constructed from arbitrary field values, no tree and no Path
InitKarma ==
    /\ node = <<>>
    /\ root = None
    /\ pages = <<>>
    /\ pathOpen = FALSE
    /\ current_page_node = None
    /\ pages_uuid = <<>>
    /\ actions_taken = <<>>
    /\ is_finished = FALSE
    /\ InitApp
    /\ \E t \in KarmaInputs, h \in KarmaInputs, s \in KarmaInputs, c \in KarmaInputs :
           last = Call("KarmaPoints", <<t, h, s, c>>, "none", KarmaPoints(t, h, s, c))

\* the call self + other on the value returned last
karma_add(other) ==
    /\ last.op \in KarmaOps
    /\ last' = Call("__add__", <<last.ret, other>>, "none", KarmaAdd(last.ret, other))
    /\ UNCHANGED <<treeVars, pathVars>>
    /\ UNCHANGED <<second_path, appVars>>

\* the call self - other on the value returned last
karma_sub(other) ==
    /\ last.op \in KarmaOps
    /\ last' = Call("__sub__", <<last.ret, other>>, "none", KarmaSub(last.ret, other))
    /\ UNCHANGED <<treeVars, pathVars>>
    /\ UNCHANGED <<second_path, appVars>>

\* ---------------------------------------------------------------- PageRepository
\* the entries of "pages" the model loads: two as PageRepository.to_dict
\* writes them and three in the persisted format (with a description without
\* "action", a null description, the type "context")
PageDataKinds == {"written start", "written end", "captioned", "unwritten", "context"}

PageData(uuid, kind) ==
    LET karma == KarmaPoints(Scale, 1, 0, -1)
        picture == [path |-> null, url |-> some("cat.png"), description |-> some("a cat")]
    IN CASE kind = "written start" ->
              [uuid |-> uuid, page_type |-> "start", action |-> some("go"), karma |-> karma,
               description |-> some([page |-> "text", action |-> "went",
                                     image |-> some("a cat")]),
               image |-> some(picture)]
         [] kind = "written end" ->
              [uuid |-> uuid, page_type |-> "end", action |-> some("stay"), karma |-> karma,
               description |-> some([page |-> "text", action |-> "stayed",
                                     image |-> some("a dog")]),
               image |-> null]
         [] kind = "captioned" ->
              [page_type |-> "action", action |-> some("go"), karma |-> karma,
               description |-> some([page |-> "text", image |-> null]),
               image |-> some(picture)]
         [] kind = "unwritten" ->
              [page_type |-> "action", action |-> some("stay"), karma |-> karma,
               description |-> null, image |-> null]
         [] kind = "context" ->
              [page_type |-> "context", action |-> null, karma |-> karma,
               description |-> some([page |-> "text", image |-> some("a cat")]),
               image |-> null]

\* Image(**data) and Image.model_dump(): the three optional fields
Image(data) == [path |-> data.path, url |-> data.url, description |-> data.description]

\* the body of the loop of PageRepository.from_dict for one entry: the
\* exception it raises, if any, and the Page it builds
page_from_dict(page_uuid, page_data) ==
    IF page_data.page_type \notin PageType
    THEN [err |-> "ValueError", page |-> null]
    ELSE IF page_data.description = null
    THEN \* Description(**None)
         [err |-> "TypeError", page |-> null]
    ELSE LET description == page_data.description[1]
         IN IF "action" \notin DOMAIN description \/ description.image = null
               \/ page_data.action = null
            THEN \* a required str field of Description or of Page is missing or None
                 [err |-> "ValidationError", page |-> null]
            ELSE [err |-> "none",
                  page |-> [uuid |-> page_uuid,
                            page_type |-> page_data.page_type,
                            action |-> page_data.action[1],
                            karma |-> KarmaPoints(page_data.karma.technology,
                                                  page_data.karma.happiness,
                                                  page_data.karma.safety,
                                                  page_data.karma.control),
                            description |-> some([page |-> description.page,
                                                  action |-> description.action,
                                                  image |-> description.image[1]]),
                            image |-> IF page_data.image = null
                                      THEN null
                                      ELSE some(Image(page_data.image[1]))]]

\* PageRepository.from_dict(pages_data): the exception of the first entry that
\* raises one (the entries are taken in the order of their uuids) or the
\* pages of the repository
PageRepository_from_dict(pages_data) ==
    LET built == [u \in DOMAIN pages_data |-> page_from_dict(u, pages_data[u])]
        failed == { u \in DOMAIN pages_data : built[u].err # "none" }
    IN IF failed # {}
       THEN [err |-> built[CHOOSE u \in failed : \A v \in failed : u <= v].err, pages |-> <<>>]
       ELSE [err |-> "none", pages |-> [u \in DOMAIN pages_data |-> built[u].page]]

\* the body of the loop of PageRepository.to_dict for one page: the exception
\* it raises, if any, and the entry it writes
page_to_dict(page) ==
    IF page.description = null
    THEN \* None.model_dump()
         [err |-> "AttributeError", page_data |-> null]
    ELSE [err |-> "none",
          page_data |-> [uuid |-> page.uuid,
                         page_type |-> page.page_type,
                         action |-> some(page.action),
                         karma |-> page.karma,
                         description |-> some([page |-> page.description[1].page,
                                               action |-> page.description[1].action,
                                               image |-> some(page.description[1].image)]),
                         image |-> IF page.image = null
                                   THEN null
                                   ELSE some(Image(page.image[1]))]]

\* PageRepository.to_dict(repository)
PageRepository_to_dict(repository) ==
    LET written == [u \in DOMAIN repository |-> page_to_dict(repository[u])]
        failed == { u \in DOMAIN repository : written[u].err # "none" }
    IN IF failed # {}
       THEN [err |-> "AttributeError", pages_data |-> <<>>]
       ELSE [err |-> "none", pages_data |-> [u \in DOMAIN repository |-> written[u].page_data]]

\* the page uuids of a node document, one entry for every node
RECURSIVE document_uuids(_)
document_uuids(node_data) ==
    LET RECURSIVE over(_)
        over(children) ==
            IF children = <<>>
            THEN <<>>
            ELSE document_uuids(Head(children)) \o over(Tail(children))
    IN <<node_data.page_uuid>> \o over(node_data.children)

\* the "root" documents handed to StoryTreeFactory.from_json: no two nodes
\* carry the same page uuid
RootInputs ==
    { node_data \in DocumentInputs :
        \A i, j \in 1 .. Len(document_uuids(node_data)) :
            document_uuids(node_data)[i] = document_uuids(node_data)[j] => i = j }

\* a document in a file, where every node has an entry of its own in "pages"
\* and every entry a node; no tree and no Path
InitJson ==
    /\ node = <<>>
    /\ root = None
    /\ pages = <<>>
    /\ pathOpen = FALSE
    /\ current_page_node = None
    /\ pages_uuid = <<>>
    /\ actions_taken = <<>>
    /\ is_finished = FALSE
    /\ InitApp
    /\ \E node_data \in RootInputs :
           LET uuids == { document_uuids(node_data)[i] :
                            i \in 1 .. Len(document_uuids(node_data)) }
           IN \E kinds \in [uuids -> PageDataKinds] :
                  last = Call("json_file", None, "none",
                              [root |-> node_data,
                               pages |-> [u \in uuids |-> PageData(u, kinds[u])]])

\* StoryTreeFactory.from_json(json_file) on the document of the file
from_json ==
    /\ last.op = "json_file"
    /\ LET built == from_dict(node, last.ret.root, None)
           repository == PageRepository_from_dict(last.ret.pages)
       IN IF repository.err # "none"
          THEN /\ UNCHANGED treeVars
               /\ last' = Call("from_json", last.ret, repository.err, None)
          ELSE /\ node' = built.heap
               /\ root' = built.node
               /\ pages' = repository.pages
               /\ last' = Call("from_json", last.ret, "none", None)
    /\ UNCHANGED pathVars
    /\ UNCHANGED <<second_path, appVars>>

\* StoryTreeWriter.to_json(tree, json_file) on the tree that from_json
\* returned: what is written to the file
to_json ==
    /\ last.op = "from_json"
    /\ last.err = "none"
    /\ LET written == PageRepository_to_dict(pages)
       IN last' = IF written.err # "none"
                  THEN Call("to_json", None, written.err, None)
                  ELSE Call("to_json", None, "none",
                            [root |-> to_dict(node, root), pages |-> written.pages_data])
    /\ UNCHANGED <<treeVars, pathVars>>
    /\ UNCHANGED <<second_path, appVars>>

\* mutant: the page is stored whether or not safe is set
PageRepository_add_page_overwrite(page, safe) ==
    /\ pages' = (page.uuid :> page) @@ pages
    /\ last' = Call("PageRepository.add_page", <<page, safe>>, "none", None)
    /\ UNCHANGED <<node, root, pathVars>>
    /\ UNCHANGED <<second_path, appVars>>

\* the call PageRepository.add_page(page, safe)
PageRepository_add_page(page, safe) ==
    /\ IF safe /\ page.uuid \in DOMAIN pages
       THEN /\ pages' = pages
            /\ last' = Call("PageRepository.add_page", <<page, safe>>, "ValueError", None)
       ELSE /\ pages' = (page.uuid :> page) @@ pages
            /\ last' = Call("PageRepository.add_page", <<page, safe>>, "none", None)
    /\ UNCHANGED <<node, root, pathVars>>
    /\ UNCHANGED <<second_path, appVars>>

\* the call PageRepository.get_page(uuid)
PageRepository_get_page(uuid) ==
    /\ last' = Call("PageRepository.get_page", uuid, "none", get_page(uuid))
    /\ UNCHANGED <<treeVars, pathVars>>
    /\ UNCHANGED <<second_path, appVars>>

\* the call PageRepository.remove_page(uuid)
PageRepository_remove_page(uuid) ==
    /\ IF uuid \notin DOMAIN pages
       THEN /\ pages' = pages
            /\ last' = Call("PageRepository.remove_page", uuid, "ValueError", None)
       ELSE /\ pages' = [u \in DOMAIN pages \ {uuid} |-> pages[u]]
            /\ last' = Call("PageRepository.remove_page", uuid, "none", None)
    /\ UNCHANGED <<node, root, pathVars>>
    /\ UNCHANGED <<second_path, appVars>>

\* ---------------------------------------------------------------- Teller
\* Teller._max_tries, the default of Teller.__init__
max_tries == 3

\* Page(...) with every field given
Page(uuid, page_type, action, karma, description, image) ==
    [uuid |-> uuid, page_type |-> page_type, action |-> action, karma |-> karma,
     description |-> description, image |-> image]

\* the pages of the trees the Teller works on: a written page for the root,
\* which holds the context of the story, and the unwritten pages that the
\* Teller makes for the next actions
TellerPageInputs ==
    { Page(u, "start", "go", KarmaPoints(0, 0, 0, 0),
           some([page |-> "context", image |-> null]), null) : u \in UUIDs }
    \cup { Page(u, "action", a, KarmaPoints(0, 0, 0, 0), null, null) :
             u \in UUIDs, a \in ActionTexts }

\* one call of the external generator: it raises
failure == [raises |-> "Exception"]

\* or it returns a response
ResponseInputs ==
    { [page |-> [description |-> "text", karma_points |-> <<Scale + 1, 0, 0, -1>>,
                 next_actions |-> <<"go", "stay">>],
       image |-> null],
      [page |-> [description |-> "text", karma_points |-> <<0, -1, 0, 0>>,
                 next_actions |-> <<"end">>],
       image |-> some([url |-> "cat.png", description |-> "a cat"])] }

\* what the generator does at the first, second, ... call of one step: it
\* fails every time, or all but once
OutcomeInputs ==
    { outcomes \in [1 .. max_tries -> {failure} \cup ResponseInputs] :
        \A i, j \in 1 .. max_tries :
            (outcomes[i] # failure /\ outcomes[j] # failure) => i = j }

\* mutant: a successful call does not end the loop
invoke_chain_loop_no_break(outcomes, tries) ==
    LET succeeded == { i \in tries + 1 .. max_tries : outcomes[i] # failure }
    IN [invocations |-> max_tries,
        response |-> IF succeeded = {}
                     THEN null
                     ELSE some(outcomes[CHOOSE i \in succeeded : \A j \in succeeded : j <= i])]

\* the loop around self._chain.invoke after `tries` rounds (teller.py lines
\* 68-81 and 211-224): the calls made in all and the response, which stays
\* unbound when every call raised
RECURSIVE invoke_chain_loop(_, _)
invoke_chain_loop(outcomes, tries) ==
    IF tries = max_tries
    THEN [invocations |-> tries, response |-> null]
    ELSE IF outcomes[tries + 1] = failure
    THEN invoke_chain_loop(outcomes, tries + 1)
    ELSE [invocations |-> tries + 1, response |-> some(outcomes[tries + 1])]

\* StoryTree.get_context_page(): the page of the root, which app/states/title.py
\* adds first to a new tree
get_context_page == IF root = None THEN None ELSE get_page(node[root].page_uuid)

\* reading context_page.description.page raises
no_context ==
    \/ root = None
    \/ node[root].page_uuid \notin DOMAIN pages
    \/ get_context_page.description = null

\* str.upper on the labels of the responses
upper(label) ==
    CASE label = "go" -> "GO"
      [] label = "stay" -> "STAY"
      [] label = "end" -> "END"

\* the Image, the Description and the KarmaPoints made from a response
\* (teller.py lines 84-108 and 226-243)
response_image(response) ==
    IF response.image # null
    THEN Image([path |-> null, url |-> some(response.image[1].url), description |-> null])
    ELSE Image([path |-> null, url |-> null, description |-> null])

response_description(response) ==
    [page |-> response.page.description,
     image |-> IF response.image # null THEN some(response.image[1].description) ELSE null]

response_karma(response) ==
    KarmaPoints(response.page.karma_points[1], response.page.karma_points[2],
                response.page.karma_points[3], response.page.karma_points[4])

\* the unwritten pages made for the next actions, as their actions
response_children(response) ==
    [i \in 1 .. Len(response.page.next_actions) |-> response.page.next_actions[i]]

\* Teller._generate_starting_page(story_tree) when the generator behaves as
\* outcomes; the call is recorded with the outcomes of the calls it made
generate_starting_page(outcomes) ==
    /\ new_uuids # {}
    /\ IF no_context
       THEN last' = Call("_generate_starting_page", <<>>, "AttributeError", None)
       ELSE LET loop == invoke_chain_loop(outcomes, 0)
                made == SubSeq(outcomes, 1, loop.invocations)
            IN IF loop.response = null
               THEN \* response is read before it was ever assigned
                    last' = Call("_generate_starting_page", made, "UnboundLocalError", None)
               ELSE LET response == loop.response[1]
                        new_start_page ==
                            Page(CHOOSE u \in new_uuids : TRUE, "start", "start",
                                 response_karma(response),
                                 some(response_description(response)),
                                 some(response_image(response)))
                    IN last' = Call("_generate_starting_page", made, "none",
                                    [page |-> new_start_page,
                                     children |-> response_children(response)])
    /\ UNCHANGED <<treeVars, pathVars>>
    /\ UNCHANGED <<second_path, appVars>>

\* a page the Path visited before the current one, the context page aside, has
\* no description to put in the list of pages (teller.py lines 207-210)
unwritten_on_path ==
    \E i \in 2 .. Len(pages_uuid) :
        /\ pages_uuid[i] # node[current_page_node].page_uuid
        /\ get_page(pages_uuid[i]).description = null

\* Teller.generate_current_page(path.get_current_page(), path, story_tree)
\* when the generator behaves as outcomes
generate_current_page(outcomes) ==
    /\ pathOpen
    /\ current_page_node # None
    /\ \A i \in 1 .. Len(pages_uuid) : pages_uuid[i] \in DOMAIN pages
    /\ IF no_context \/ unwritten_on_path
       THEN /\ pages' = pages
            /\ last' = Call("generate_current_page", <<>>, "AttributeError", None)
       ELSE LET loop == invoke_chain_loop(outcomes, 0)
                made == SubSeq(outcomes, 1, loop.invocations)
            IN IF loop.response = null
               THEN /\ pages' = pages
                    /\ last' = Call("generate_current_page", made, "UnboundLocalError", None)
               ELSE LET response == loop.response[1]
                        current_page == get_page(node[current_page_node].page_uuid)
                        ends == \E i \in 1 .. Len(response.page.next_actions) :
                                    upper(response.page.next_actions[i]) = "END"
                        written ==
                            Page(current_page.uuid,
                                 IF ends THEN "end" ELSE current_page.page_type,
                                 current_page.action,
                                 response_karma(response),
                                 some(response_description(response)),
                                 some(response_image(response)))
                    IN /\ pages' = [pages EXCEPT ![current_page.uuid] = written]
                       /\ last' = Call("generate_current_page", made, "none",
                                       [page |-> written,
                                        children |-> IF ends
                                                     THEN <<>>
                                                     ELSE response_children(response)])
    /\ UNCHANGED <<node, root, pathVars>>
    /\ UNCHANGED <<second_path, appVars>>

\* ---------------------------------------------------------------- calls on a loaded tree
\* the call TreeNode.remove_node(child_uuid) on node n of a tree that was loaded
TreeNode_remove_node(n, child_uuid) ==
    /\ last.op # "document"
    /\ LET r == remove_node(n, child_uuid)
           detached == { r.removed[i] : i \in 1 .. Len(r.removed) }
       IN /\ node' = [m \in DOMAIN node |->
                         IF m = n
                         THEN [node[m] EXCEPT !.children = r.new_children]
                         ELSE IF m \in detached
                         THEN [node[m] EXCEPT !.parent = None]
                         ELSE node[m]]
          /\ last' = Call("remove_node", <<n, child_uuid>>, "none",
                          [i \in 1 .. Len(r.removed) |-> node[r.removed[i]].page_uuid])
    /\ UNCHANGED <<root, pages, pathVars>>
    /\ UNCHANGED <<second_path, appVars>>

\* the call StoryTree.search_page_node(uuid), from the root
StoryTree_search_page_node(uuid) ==
    /\ last' = Call("search_page_node", uuid, "none", search_page_node(uuid, root))
    /\ UNCHANGED <<treeVars, pathVars>>
    /\ UNCHANGED <<second_path, appVars>>

\* ---------------------------------------------------------------- the states of the app
\* the events of app/base.py: ChoiceInputEvent, TextInputEvent,
\* AlertSystemEvent and QuitEvent objects
ChoiceInputEvent(choice) == [class |-> "ChoiceInputEvent", choice |-> choice]

TextInputEvent(target, text) == [class |-> "TextInputEvent", target |-> target, text |-> text]

AlertSystemEvent(content, type) ==
    [class |-> "AlertSystemEvent", content |-> content, type |-> type]

QuitEvent == [class |-> "QuitEvent"]

\* the event lists app/cli.py builds in one round of its loop, and lists of
\* two events, which a caller of StateMachine.handle_events may hand over
Events ==
    { ChoiceInputEvent("start"), ChoiceInputEvent("change_story"),
      ChoiceInputEvent("go"), ChoiceInputEvent("stay"),
      TextInputEvent("description", ""), TextInputEvent("description", "a story"),
      AlertSystemEvent("ready", "trigger"), AlertSystemEvent("Invalid choice", "error"),
      QuitEvent }

EventLists ==
    {<<>>} \cup { <<event>> : event \in Events }
        \cup { <<AlertSystemEvent("ready", "trigger"), QuitEvent>>,
               <<ChoiceInputEvent("change_story"), QuitEvent>>,
               <<QuitEvent, ChoiceInputEvent("start")>> }

\* TitleState(state_machine): the flag _ready and the enabled flags of the
\* choices "start" and "change_story" and of the text input "description"
TitleState ==
    [name |-> "TitleState", ready |-> FALSE, start_enabled |-> FALSE,
     change_story_enabled |-> TRUE, description_enabled |-> FALSE]

\* ShowState(state_machine)
ShowState == [name |-> "ShowState"]

\* InteractState(state_machine): the flag _end_page
InteractState == [name |-> "InteractState", end_page |-> FALSE]

\* GameOverState(state_machine)
GameOverState == [name |-> "GameOverState"]

\* the state objects a caller constructs
States == {TitleState, ShowState, InteractState, GameOverState}

\* StateRegistry.get(name)(state_machine): a new state of the class that is
\* registered under name
StateRegistry_get(name) == CHOOSE state \in States : state.name = name

\* context.current_path.compute_karma() in on_enter: the error it raises.
\* Context is a NamedTuple whose current_path is None when no Path was given.
context_compute_karma ==
    IF ~pathOpen
    THEN "AttributeError"
    ELSE IF \E i \in 1 .. Len(pages_uuid) : pages_uuid[i] \notin DOMAIN pages
    THEN "ValueError"
    ELSE "none"

\* what a callback of a state does: the error it raises, the fields of the
\* state object afterwards
Done(err, state) == [err |-> err, state |-> state]

\* TitleState.on_enter
TitleState_on_enter(state) ==
    IF root = None \/ node[root].page_uuid \notin DOMAIN pages
    THEN Done("none", [state EXCEPT !.start_enabled = FALSE,
                                    !.change_story_enabled = FALSE,
                                    !.description_enabled = TRUE,
                                    !.ready = FALSE])
    ELSE LET enabled == [state EXCEPT !.start_enabled = TRUE,
                                      !.change_story_enabled = TRUE,
                                      !.description_enabled = FALSE]
         IN IF get_context_page.description = null
            THEN Done("AttributeError", enabled)
            ELSE Done("none", [enabled EXCEPT !.ready = TRUE])

\* InteractState.on_enter
InteractState_on_enter(state) ==
    IF ~pathOpen \/ current_page_node = None
    THEN Done("AttributeError", state)
    ELSE IF node[current_page_node].page_uuid \notin DOMAIN pages
    THEN Done("AttributeError", state)
    ELSE LET page == get_page(node[current_page_node].page_uuid)
             entered == [state EXCEPT !.end_page = (page.page_type = "end")]
         IN IF page.page_type # "end" /\ view_raises
            THEN Done("AttributeError", state)
            ELSE IF context_compute_karma # "none"
            THEN Done(context_compute_karma, entered)
            ELSE IF page.description = null
            THEN Done("AttributeError", entered)
            ELSE Done("none", entered)

\* State.on_enter of the four states
on_enter(state) ==
    CASE state.name = "TitleState" -> TitleState_on_enter(state)
      [] state.name = "ShowState" -> Done(context_compute_karma, state)
      [] state.name = "InteractState" -> InteractState_on_enter(state)
      [] state.name = "GameOverState" -> Done(context_compute_karma, state)

\* State.on_exit of the four states.  InteractState calls current_path.finish()
\* after an END page, and Path (story/path.py) defines no finish;
\* GameOverState assigns context.current_path, and Context is a NamedTuple:
\* both raise AttributeError
on_exit(state) ==
    CASE state.name = "TitleState" -> Done("none", state)
      [] state.name = "ShowState" -> Done("none", state)
      [] state.name = "InteractState" ->
             IF state.end_page THEN Done("AttributeError", state) ELSE Done("none", state)
      [] state.name = "GameOverState" -> Done("AttributeError", state)

\* one call of a callback, as the state machine makes it
Callback(by, state, method) == [by |-> by, state |-> state.name, method |-> method]

\* ---------------------------------------------------------------- StateMachine
\* what a call on the state machine leaves behind: the error it raises,
\* current_state and in_end_state afterwards, the callbacks it made
Machine(err, state, ended, calls) ==
    [err |-> err, current_state |-> state, in_end_state |-> ended, calls |-> calls]

\* the machine after on_exit of its current state, called by `by`, raised
\* err or returned: the state stays current when the callback raises
Exited(by, current, err, ended) ==
    Machine(err, IF err = "none" THEN null ELSE current, ended,
            <<Callback(by, current[1], "on_exit")>>)

\* the machine after on_enter of the state that was made current
Entered(machine, new_state, entered) ==
    Machine(entered.err, some(entered.state), machine.in_end_state,
            machine.calls \o <<Callback("push", new_state, "on_enter")>>)

\* mutant: on_exit of the state that is left is not called
push_without_exit(current, ended, new_state) ==
    Entered(Machine("none", null, ended, <<>>), new_state, on_enter(new_state))

\* the rest of push after on_exit
push_enter(machine, new_state) ==
    IF machine.err # "none"
    THEN machine
    ELSE Entered(machine, new_state, on_enter(new_state))

\* StateMachine.push(new_state) on a machine with the fields current, ended
push_result(current, ended, new_state) ==
    IF current = null
    THEN push_enter(Machine("none", null, ended, <<>>), new_state)
    ELSE push_enter(Exited("push", current, on_exit(current[1]).err, ended), new_state)

\* mutant: the flag in_end_state is not set
end_forgets_flag(current, ended) ==
    IF ended
    THEN Machine("none", current, ended, <<>>)
    ELSE IF current = null
    THEN Machine("none", null, FALSE, <<>>)
    ELSE Exited("end", current, on_exit(current[1]).err, FALSE)

\* the flag in_end_state is set once on_exit has returned
set_end_state(machine) == [machine EXCEPT !.in_end_state = (machine.err = "none")]

\* StateMachine.end() on a machine with the fields current, ended
end_result(current, ended) ==
    IF ended
    THEN Machine("none", current, ended, <<>>)
    ELSE IF current = null
    THEN Machine("none", null, TRUE, <<>>)
    ELSE set_end_state(Exited("end", current, on_exit(current[1]).err, ended))

\* what State.handle_events has done after one event: whether it left its
\* loop, the error it raised, the state it returned, the machine, which end()
\* changes, the state object itself and the fields of the Path of the context
Handled(left, err, new_state, state, machine, path) ==
    [left |-> left, err |-> err, new_state |-> new_state, state |-> state,
     machine |-> machine, path |-> path]

\* the loop goes on to the next event
Continue(state) ==
    Handled(FALSE, "none", null, state, Machine("none", some(state), in_end_state, <<>>), this_path)

\* return new_state, or raise err
Return(err, new_state, state) ==
    Handled(TRUE, err, new_state, state, Machine("none", some(state), in_end_state, <<>>), this_path)

\* self._state_machine.end() and return None, which every state does on a QuitEvent
Ended(state, machine) == Handled(TRUE, machine.err, null, state, machine, this_path)

Quit(state) == Ended(state, end_result(some(state), in_end_state))

\* TitleState._start_new_path(story_tree) and the assignment of its result
\* to context.current_path: a new Path is made and moved, then the
\* assignment raises, since Context is a NamedTuple
start_new_path ==
    IF root = None
    THEN "ValueError"
    ELSE IF node[root].page_uuid \notin DOMAIN pages
    THEN "AttributeError"
    ELSE IF \E i \in 1 .. Len(node[root].children) :
                node[node[root].children[i]].page_uuid \notin DOMAIN pages
    THEN "AttributeError"
    ELSE IF node[root].children = <<>>
    THEN "RuntimeError"
    ELSE "AttributeError"

\* TitleState.handle_events: one event
TitleState_event(state, event) ==
    CASE event.class = "ChoiceInputEvent" ->
             IF event.choice = "start"
             THEN IF ~state.ready
                  THEN Return("RuntimeError", null, state)
                  ELSE Return(start_new_path, null, state)
             ELSE IF event.choice = "change_story"
             THEN Return("none", null,
                         [state EXCEPT !.change_story_enabled = FALSE,
                                       !.start_enabled = FALSE,
                                       !.description_enabled = TRUE])
             ELSE Continue(state)
      [] event.class = "TextInputEvent" ->
             IF event.text = ""
             THEN Return("none", null, state)
             ELSE \* the flags are set, then the assignment to context.story_tree raises
                  Return("AttributeError", null,
                         [state EXCEPT !.change_story_enabled = TRUE,
                                       !.start_enabled = TRUE,
                                       !.description_enabled = FALSE,
                                       !.ready = TRUE])
      [] event.class = "QuitEvent" -> Quit(state)
      [] event.class = "AlertSystemEvent" -> Continue(state)

\* ShowState.handle_events: one event; event.message is no attribute of an
\* AlertSystemEvent
ShowState_event(state, event) ==
    CASE event.class = "AlertSystemEvent" ->
             IF event.type = "trigger" /\ event.content = "ready"
             THEN Return("none", some(StateRegistry_get("InteractState")), state)
             ELSE IF event.type = "error"
             THEN Return("AttributeError", null, state)
             ELSE Continue(state)
      [] event.class = "QuitEvent" -> Quit(state)
      [] OTHER -> Continue(state)

\* context.current_path.take_action(choice) in InteractState.handle_events:
\* the error it raises and the fields of the Path afterwards
context_take_action(choice) ==
    IF ~pathOpen \/ view_raises
    THEN [err |-> "AttributeError", path |-> this_path]
    ELSE IF choice \notin DOMAIN view_action_options
    THEN [err |-> "ValueError", path |-> this_path]
    ELSE LET next_page_node == view_action_options[choice]
             next_uuid == node[next_page_node].page_uuid
             moved == [this_path EXCEPT !.current_page_node = next_page_node,
                                   !.pages_uuid = Append(pages_uuid, next_uuid),
                                   !.actions_taken = Append(actions_taken, choice)]
         IN IF next_uuid \notin DOMAIN pages
            THEN [err |-> "AttributeError", path |-> moved]
            ELSE [err |-> "none",
                  path |-> [moved EXCEPT !.is_finished =
                                finished_after(get_page(next_uuid), is_finished)]]

\* InteractState.handle_events: one event
InteractState_event(state, event) ==
    CASE event.class = "AlertSystemEvent" ->
             IF event.type = "trigger" /\ event.content = "ready"
             THEN Return("none", some(StateRegistry_get("GameOverState")), state)
             ELSE IF event.type = "error"
             THEN Return("none", null, state)
             ELSE Continue(state)
      [] event.class = "ChoiceInputEvent" ->
             LET taken == context_take_action(event.choice)
             IN [Return(taken.err,
                        IF taken.err = "none" THEN some(InteractState) ELSE null,
                        state) EXCEPT !.path = taken.path]
      [] event.class = "QuitEvent" -> Quit(state)
      [] OTHER -> Continue(state)

\* GameOverState.handle_events: one event; Path (story/path.py) defines no
\* feedback, so that the call raises AttributeError
GameOverState_event(state, event) ==
    CASE event.class = "ChoiceInputEvent" -> Return("AttributeError", null, state)
      [] event.class = "QuitEvent" -> Quit(state)
      [] OTHER -> Continue(state)

\* the body of the loop `for event in events` of the four states
handle_event(state, event) ==
    CASE state.name = "TitleState" -> TitleState_event(state, event)
      [] state.name = "ShowState" -> ShowState_event(state, event)
      [] state.name = "InteractState" -> InteractState_event(state, event)
      [] state.name = "GameOverState" -> GameOverState_event(state, event)

\* State.handle_events(events): the loop returns at the first event that
\* decides, and None when it runs off the list
RECURSIVE State_handle_events(_, _)
RECURSIVE next_event(_, _)
State_handle_events(state, events) ==
    IF events = <<>>
    THEN Return("none", null, state)
    ELSE next_event(handle_event(state, Head(events)), Tail(events))

\* after one event: the loop is left, or goes on with the events that remain
next_event(handled, events) ==
    IF handled.left THEN handled ELSE State_handle_events(handled.state, events)

\* what a call of StateMachine.handle_events did: the machine afterwards,
\* the value returned if any, the class of the state the handler returned if
\* any, the fields of the Path of the context
Result(machine, returned, handler, path) ==
    [machine |-> machine, returned |-> returned, handler |-> handler, path |-> path]

\* StateMachine.handle_events after push(new_state)
after_push(pushed, handled) ==
    Result(pushed, IF pushed.err = "none" THEN some(TRUE) ELSE null,
           some(handled.new_state[1].name), handled.path)

\* StateMachine.handle_events after State.handle_events of the current state
after_handler(handled) ==
    IF handled.err # "none"
    THEN Result([handled.machine EXCEPT !.err = handled.err], null, null, handled.path)
    ELSE IF handled.new_state # null
    THEN after_push(push_result(handled.machine.current_state,
                                handled.machine.in_end_state,
                                handled.new_state[1]),
                    handled)
    ELSE Result(handled.machine, some(FALSE), null, handled.path)

\* StateMachine.handle_events(events); None has no handle_events
handle_events_result(events) ==
    IF current_state = null
    THEN Result(Machine("AttributeError", null, in_end_state, <<>>), null, null, this_path)
    ELSE after_handler(State_handle_events(current_state[1], events))

\* the fields of the Path of the context after a call
set_path(path) ==
    /\ pathOpen' = path.pathOpen
    /\ current_page_node' = path.current_page_node
    /\ pages_uuid' = path.pages_uuid
    /\ actions_taken' = path.actions_taken
    /\ is_finished' = path.is_finished

\* the call StateMachine.push(new_state)
push(new_state) ==
    /\ ~running
    /\ \E pushed \in {push_result(current_state, in_end_state, new_state)} :
          /\ current_state' = pushed.current_state
          /\ in_end_state' = pushed.in_end_state
          /\ last' = Call("push", new_state.name, pushed.err, [calls |-> pushed.calls])
    /\ UNCHANGED <<treeVars, pathVars, second_path, running>>

\* the call StateMachine.handle_events(events)
handle_events(events) ==
    /\ ~running
    /\ \E result \in {handle_events_result(events)} :
          /\ current_state' = result.machine.current_state
          /\ in_end_state' = result.machine.in_end_state
          /\ set_path(result.path)
          /\ last' = Call("handle_events", events, result.machine.err,
                          [returned |-> result.returned, handler |-> result.handler,
                           calls |-> result.machine.calls])
    /\ UNCHANGED <<treeVars, second_path, running>>

\* the call StateMachine.end()
end ==
    /\ ~running
    /\ \E ended \in {end_result(current_state, in_end_state)} :
          /\ current_state' = ended.current_state
          /\ in_end_state' = ended.in_end_state
          /\ last' = Call("end", None, ended.err, [calls |-> ended.calls])
    /\ UNCHANGED <<treeVars, pathVars, second_path, running>>

\* ---------------------------------------------------------------- CLIApp
\* the names of the enabled choices in the render data of a state
enabled_choices(state) ==
    CASE state.name = "TitleState" ->
             (IF state.start_enabled THEN {"start"} ELSE {})
                 \cup (IF state.change_story_enabled THEN {"change_story"} ELSE {})
      [] state.name = "ShowState" -> {}
      [] state.name = "InteractState" ->
             IF state.end_page \/ ~pathOpen \/ view_raises
             THEN {}
             ELSE DOMAIN view_action_options
      [] state.name = "GameOverState" -> {"-2", "-1", "0", "1", "2"}

\* the layout in the render data of a state is MOVIE
movie_layout(state) ==
    \/ state.name = "ShowState"
    \/ state.name = "InteractState" /\ state.end_page

\* CLIApp._get_system_events(layout)
get_system_events(state) ==
    IF movie_layout(state) THEN <<AlertSystemEvent("ready", "trigger")>> ELSE <<>>

\* CLIApp._get_user_choice(controls): no input, the number of an enabled
\* choice, or something else
get_user_choice(state) ==
    IF enabled_choices(state) = {}
    THEN {<<>>}
    ELSE {<<>>, <<AlertSystemEvent("Invalid choice", "error")>>}
             \cup { <<ChoiceInputEvent(choice)>> : choice \in enabled_choices(state) }

\* CLIApp._get_user_text_input(controls): one line for an enabled target
get_user_text_input(state) ==
    IF state.name = "TitleState" /\ state.description_enabled
    THEN { <<TextInputEvent("description", text)>> : text \in {"", "a story"} }
    ELSE {<<>>}

\* the events of one round of CLIApp._loop: the three lists one after the
\* other, or a QuitEvent when the user interrupts them
loop_events(state) ==
    {<<QuitEvent>>}
        \cup { get_system_events(state) \o choice \o text :
                 choice \in get_user_choice(state), text \in get_user_text_input(state) }

\* CLIApp.run() up to its loop: the title state is pushed, _start() sets _running
run ==
    /\ ~running
    /\ current_state = null
    /\ ~in_end_state
    /\ \E pushed \in {push_result(current_state, in_end_state, TitleState)} :
          /\ current_state' = pushed.current_state
          /\ in_end_state' = pushed.in_end_state
          /\ running' = (pushed.err = "none")
          /\ last' = Call("run", None, pushed.err, [calls |-> pushed.calls])
    /\ UNCHANGED <<treeVars, pathVars, second_path>>

\* the test of the while loop of CLIApp._loop
loop_condition == running /\ ~in_end_state

\* one round of CLIApp._loop; an exception of an earlier round has left the loop
loop ==
    /\ loop_condition
    /\ last.err = "none"
    /\ \E events \in loop_events(current_state[1]) :
           \E result \in {handle_events_result(events)} :
              /\ current_state' = result.machine.current_state
              /\ in_end_state' = result.machine.in_end_state
              /\ set_path(result.path)
              /\ last' = Call("_loop", events, result.machine.err,
                              [returned |-> result.returned, handler |-> result.handler,
                               calls |-> result.machine.calls])
    /\ UNCHANGED <<treeVars, second_path, running>>

\* CLIApp._clean_up(), after the loop
clean_up ==
    /\ running
    /\ ~loop_condition
    /\ last.op = "_loop"
    /\ last' = Call("_clean_up", None, "none", None)
    /\ UNCHANGED <<treeVars, pathVars, second_path, appVars>>

\* ---------------------------------------------------------------- specification
Next ==
    \/ \E page \in PageInputs, parent_node \in {None} \cup DOMAIN node :
           /\ ~pathOpen
           /\ page.uuid \in new_uuids \cup DOMAIN pages
           /\ add_page(page, parent_node)
    \/ Path
    \/ ViewActionOptions
    \/ \E action \in LabelInputs : take_action(action)
    \/ go_back
    \/ compute_karma
    \/ get_pages
    \/ get_actions_taken

Spec == Init /\ [][Next]_vars

\* the StoryTree alone: any sequence of add_page and remove_page calls on a
\* tree that starts empty
NextTree ==
    \/ \E page \in PageInputs, parent_node \in {None} \cup DOMAIN node :
           /\ page.uuid \in new_uuids \cup DOMAIN pages
           /\ add_page(page, parent_node)
    \/ \E uuid \in UUIDs : remove_page(uuid)

SpecTree == Init /\ [][NextTree]_vars

\* KarmaPoints alone: a constructed value and any sequence of additions and
\* subtractions on it
NextKarma ==
    \/ \E other \in KarmaOperands : karma_add(other)
    \/ \E other \in KarmaOperands : karma_sub(other)

SpecKarma == InitKarma /\ [][NextKarma]_vars

\* TreeNode documents alone: a document is read and written back
NextDocument ==
    \/ FromDict
    \/ ToDict

SpecDocument == InitDocument /\ [][NextDocument]_vars

\* a tree loaded from a document, alone: nodes are searched for and children
\* are removed from any node
NextNode ==
    \/ FromDict
    \/ \E n \in DOMAIN node, child_uuid \in UUIDs : TreeNode_remove_node(n, child_uuid)
    \/ \E uuid \in UUIDs : StoryTree_search_page_node(uuid)

SpecNode == InitDocument /\ [][NextNode]_vars

\* the PageRepository alone: any sequence of calls on a repository that starts empty
NextRepository ==
    \/ \E page \in PageInputs, safe \in BOOLEAN : PageRepository_add_page(page, safe)
    \/ \E uuid \in UUIDs : PageRepository_get_page(uuid)
    \/ \E uuid \in UUIDs : PageRepository_remove_page(uuid)

SpecRepository == Init /\ [][NextRepository]_vars

\* the Teller over a tree and a Path: the page of the context is added as the
\* root and unwritten pages under it, the Path is opened and moved, and pages
\* are generated
NextTeller ==
    \/ \E page \in TellerPageInputs, parent_node \in {None} \cup DOMAIN node :
           /\ ~pathOpen
           /\ page.uuid \in new_uuids \cup DOMAIN pages
           /\ parent_node = None <=> page.description # null
           /\ add_page(page, parent_node)
    \/ Path
    \/ \E action \in LabelInputs : take_action(action)
    \/ \E outcomes \in OutcomeInputs : generate_starting_page(outcomes)
    \/ \E outcomes \in OutcomeInputs : generate_current_page(outcomes)

SpecTeller == Init /\ [][NextTeller]_vars

\* a tree that is changed while a Path is open on it: add_page and remove_page
\* calls in any order with the calls on the Path
NextShared ==
    \/ \E page \in PageInputs, parent_node \in {None} \cup DOMAIN node :
           /\ page.page_type = "action"
           /\ page.uuid \in new_uuids
           /\ add_page(page, parent_node)
    \/ \E uuid \in UUIDs : remove_page(uuid)
    \/ Path
    \/ \E action \in ActionTexts : take_action(action)
    \/ go_back
    \/ compute_karma
    \/ get_current_page

SpecShared == Init /\ [][NextShared]_vars

\* two Path objects over one tree: the tree is built, then the Paths are
\* opened and moved in any order
NextPaths ==
    \/ \E page \in PageInputs, parent_node \in {None} \cup DOMAIN node :
           /\ ~pathOpen
           /\ ~second_path.pathOpen
           /\ page.page_type # "start"
           /\ page.uuid \in new_uuids
           /\ add_page(page, parent_node)
    \/ Path
    \/ other_path
    \/ \E action \in ActionTexts \cup {"missing"} : take_action(action)
    \/ go_back

SpecPaths == Init /\ [][NextPaths]_vars

\* the pages of the trees the app runs on: written pages, a start page for
\* the root, which holds the context of the story
AppPageInputs ==
    { Page(u, kind[1], kind[2], KarmaPoints(0, 0, 0, 0),
           some([page |-> "text", image |-> null]), null) :
        u \in UUIDs, kind \in {<<"start", "go">>, <<"action", "go">>, <<"end", "stay">>} }

\* the state machine and the app were made and not used yet
unused == current_state = null /\ ~in_end_state /\ ~running

\* the app: a tree is built and a Path opened and moved, which make the
\* Context; then either the caller drives the state machine or CLIApp.run does
NextApp ==
    \/ \E page \in AppPageInputs, parent_node \in {None} \cup DOMAIN node :
           /\ unused
           /\ ~pathOpen
           /\ page.uuid \in new_uuids
           /\ parent_node = None <=> page.page_type = "start"
           /\ add_page(page, parent_node)
    \/ unused /\ Path
    \/ \E action \in ActionTexts : unused /\ take_action(action)
    \/ \E new_state \in States : push(new_state)
    \/ \E events \in EventLists : handle_events(events)
    \/ end
    \/ run
    \/ loop
    \/ clean_up

SpecApp == Init /\ [][NextApp]_vars

\* persisted trees alone: a file is loaded and the tree is saved again
NextJson ==
    \/ from_json
    \/ to_json

SpecJson == InitJson /\ [][NextJson]_vars

\* ---------------------------------------------------------------- properties of Path
\* the page most recently visited by the Path has type END
LastVisitedIsEnd ==
    /\ pages_uuid # <<>>
    /\ pages_uuid[Len(pages_uuid)] \in DOMAIN pages
    /\ pages[pages_uuid[Len(pages_uuid)]].page_type = "end"

\* a list without its last element
ButLast(list) == [i \in 1 .. Len(list) - 1 |-> list[i]]

\* C1: once a Path exists, the visited page ids and the actions taken have the
\* same length, and get_pages() and get_actions_taken() return sequences of
\* that length, in the order of the visit.
C1_HistoryListsSameLength ==
    pathOpen =>
        /\ Len(pages_uuid) = Len(actions_taken)
        /\ last.op = "get_pages" =>
               /\ Len(last.ret) = Len(actions_taken)
               /\ \A i \in 1 .. Len(pages_uuid) : last.ret[i].uuid = pages_uuid[i]
        /\ last.op = "get_actions_taken" =>
               /\ Len(last.ret) = Len(pages_uuid)
               /\ \A i \in 1 .. Len(actions_taken) : last.ret[i] = actions_taken[i]

\* get_actions_taken() is called after two actions were taken
C1_Witness ==
    /\ pathOpen
    /\ last.op = "get_actions_taken"
    /\ Len(last.ret) = 3

\* C2: once a Path exists, the visited list is non-empty, the current node is
\* a node and not None, and its page id is the last visited page id.
C2_CurrentIsLastVisited ==
    pathOpen =>
        /\ pages_uuid # <<>>
        /\ current_page_node # None
        /\ node[current_page_node].page_uuid = pages_uuid[Len(pages_uuid)]

\* C3: go_back with only the root in the history fails and leaves the current
\* node, both history lists and the finished flag as they were.
C3_GoBackAtRootFails ==
    [][(go_back /\ Len(pages_uuid) = 1) =>
           /\ last'.err # "none"
           /\ UNCHANGED pathVars]_vars

\* C4: go_back with a history of two or more entries succeeds: it drops the
\* last entry of both lists, moves to the parent and clears the finished flag.
C4_GoBackPopsHistory ==
    [][(go_back /\ Len(pages_uuid) >= 2) =>
           /\ last'.err = "none"
           /\ pages_uuid' = ButLast(pages_uuid)
           /\ actions_taken' = ButLast(actions_taken)
           /\ current_page_node' = node[current_page_node].parent
           /\ is_finished' = FALSE]_vars

\* the nodes of the subtree of n, n included
RECURSIVE Subtree(_)
Subtree(n) ==
    {n} \cup UNION { Subtree(node[n].children[i]) : i \in 1 .. Len(node[n].children) }

\* the root page is not an END page and, in the tree under the root, no node
\* of an END page has children
EndPagesAreLeaves ==
    /\ root # None
    /\ \A n \in Subtree(root) :
           /\ node[n].page_uuid \in DOMAIN pages
           /\ pages[node[n].page_uuid].page_type = "end" =>
                  /\ n # root
                  /\ node[n].children = <<>>

\* C5 as stated: once a Path exists, the finished flag is true exactly when
\* the most recently visited page has type END.
C5_FinishedIffLastIsEnd ==
    pathOpen => (is_finished <=> LastVisitedIsEnd)

\* C5, amended: over a tree whose root page is not an END page and whose END
\* pages have no children, the finished flag is true exactly when the visited
\* list is non-empty and its last page has type END.
C5_FinishedIffLastIsEndOnLeafEnds ==
    (pathOpen /\ EndPagesAreLeaves) => (is_finished <=> LastVisitedIsEnd)

\* an action has led to an END leaf and finished the Path
C5_Witness ==
    /\ pathOpen
    /\ EndPagesAreLeaves
    /\ last.op = "take_action"
    /\ is_finished
    /\ LastVisitedIsEnd

\* C6: take_action with a label that view_action_options() does not offer
\* fails, and the current node, both history lists and the finished flag stay
\* as they were.
C6_UnavailableActionFails ==
    [][\A action \in LabelInputs :
           (/\ last'.op = "take_action"
            /\ last'.arg = action
            /\ take_action(action)
            /\ (view_raises \/ action \notin DOMAIN view_action_options)) =>
               /\ last'.err # "none"
               /\ UNCHANGED pathVars]_vars

\* a label that the current node does not offer was refused while it offers another
C6_Witness ==
    /\ pathOpen
    /\ last.op = "take_action"
    /\ last.err = "ValueError"
    /\ ~view_raises
    /\ DOMAIN view_action_options # {}

\* what C7 says of the two history lists and of the current node
MovesToOfferedChild(action) ==
    /\ last'.err = "none"
    /\ current_page_node' = view_action_options[action]
    /\ node[current_page_node'].parent = current_page_node
    /\ pages_uuid' = pages_uuid \o <<node[current_page_node'].page_uuid>>
    /\ actions_taken' = actions_taken \o <<action>>

\* C7 as stated: take_action with an offered label moves to the child under
\* that label, extends both history lists by that child's page id and by the
\* label, and returns true exactly when the new current page has type END.
C7_TakeActionReturnsIsEnd ==
    [][\A action \in LabelInputs :
           (/\ last'.op = "take_action"
            /\ last'.arg = action
            /\ take_action(action)
            /\ ~view_raises
            /\ action \in DOMAIN view_action_options) =>
               /\ MovesToOfferedChild(action)
               /\ last'.ret <=> LastVisitedIsEnd']_vars

\* C7, amended: as C7, but take_action returns true exactly when the new
\* current page has type END or the Path was finished before the call.
C7_TakeActionReturnsFinished ==
    [][\A action \in LabelInputs :
           (/\ last'.op = "take_action"
            /\ last'.arg = action
            /\ take_action(action)
            /\ ~view_raises
            /\ action \in DOMAIN view_action_options) =>
               /\ MovesToOfferedChild(action)
               /\ last'.ret <=> (LastVisitedIsEnd' \/ is_finished)
               /\ is_finished' = last'.ret]_vars

\* an action was taken from a finished Path to a page that is not an END page
C7_Witness ==
    /\ pathOpen
    /\ last.op = "take_action"
    /\ last.err = "none"
    /\ last.ret = TRUE
    /\ ~LastVisitedIsEnd

\* the calls on a Path
PathOps ==
    {"Path", "take_action", "go_back", "view_action_options", "compute_karma",
     "get_pages", "get_actions_taken"}

\* C8: no call on a Path, failed or not, changes the StoryTree: the root, the
\* parent and the children of every node, and the repository stay the same.
C8_PathLeavesTreeAlone ==
    [][last'.op \in PathOps => (root' = root /\ node' = node /\ pages' = pages)]_vars

\* the Path went back from a node below the root of a tree of three nodes
C8_Witness ==
    /\ pathOpen
    /\ last.op = "go_back"
    /\ last.err = "none"
    /\ pages_uuid # <<>>
    /\ Len(node) = 3

\* the four dimensions of KarmaPoints
Dimensions == {"technology", "happiness", "safety", "control"}

\* x brought into [-1, 1]
Clamped(x) == IF x > Scale THEN Scale ELSE IF x < -Scale THEN -Scale ELSE x

\* the clamped sum of the first n visited pages in one dimension
RECURSIVE ClampedSum(_, _)
ClampedSum(dimension, n) ==
    IF n = 0
    THEN 0
    ELSE Clamped(ClampedSum(dimension, n - 1) + pages[pages_uuid[n]].karma[dimension])

\* C9: compute_karma() returns, in each dimension, the sum of the karma of
\* the visited pages from the root to the current one, clamped to [-1, 1]
\* after every addition and started at zero; each field is in [-1, 1] and the
\* call changes nothing of the Path.
C9_ComputeKarmaIsClampedFold ==
    [][last'.op = "compute_karma" =>
           /\ UNCHANGED pathVars
           /\ last'.err = "none"
           /\ \A dimension \in Dimensions :
                  /\ last'.ret[dimension] = ClampedSum(dimension, Len(pages_uuid))
                  /\ last'.ret[dimension] >= -Scale
                  /\ last'.ret[dimension] <= Scale]_vars

\* the karma of three visited pages was computed and a limit was reached
C9_Witness ==
    /\ pathOpen
    /\ last.op = "compute_karma"
    /\ last.err = "none"
    /\ Len(pages_uuid) = 3
    /\ last.ret.technology = -Scale

\* C10: constructing a Path over a tree without a root fails; over a tree
\* with a root it gives current node = root, visited list = [root page id],
\* actions list = [action of the root page] and finished = false.
C10_PathConstruction ==
    last.op = "Path" =>
        IF root = None
        THEN last.err # "none" /\ ~pathOpen
        ELSE /\ last.err = "none"
             /\ pathOpen
             /\ current_page_node = root
             /\ pages_uuid = <<node[root].page_uuid>>
             /\ actions_taken = <<pages[node[root].page_uuid].action>>
             /\ is_finished = FALSE

\* a Path was constructed over a tree with a root
C10_Witness ==
    /\ last.op = "Path"
    /\ last.err = "none"
    /\ root # None

\* ---------------------------------------------------------------- properties of StoryTree
\* the nodes under the root
Reachable == IF root = None THEN {} ELSE Subtree(root)

\* the nodes under the root that carry uuid
Carriers(uuid) == { m \in Reachable : node[m].page_uuid = uuid }

\* C11: remove_page with the page id of the root completes without error and
\* leaves root = None and an empty repository.
C11_RemoveRootClearsTree ==
    [][\A uuid \in UUIDs :
           (/\ last'.op = "remove_page"
            /\ last'.arg = uuid
            /\ remove_page(uuid)
            /\ root # None
            /\ node[root].page_uuid = uuid) =>
               /\ last'.err = "none"
               /\ root' = None
               /\ DOMAIN pages' = {}]_vars

\* C12: remove_page with the id of a node below the root removes from the
\* repository exactly the page ids of the subtree of that node, takes the node
\* out of the children of its parent and leaves the other children, their
\* order and their subtrees as they were.
C12_RemoveSubtreeOnly ==
    [][\A uuid \in UUIDs :
           (/\ last'.op = "remove_page"
            /\ last'.arg = uuid
            /\ remove_page(uuid)
            /\ Carriers(uuid) # {}
            /\ root \notin Carriers(uuid)) =>
               LET n == CHOOSE m \in Carriers(uuid) : TRUE
                   p == node[n].parent
                   gone == Subtree(n)
               IN /\ last'.err = "none"
                  /\ DOMAIN pages' = DOMAIN pages \ { node[m].page_uuid : m \in gone }
                  /\ \A u \in DOMAIN pages' : pages'[u] = pages[u]
                  /\ root' = root
                  /\ node'[p].children = SelectSeq(node[p].children, LAMBDA c : c # n)
                  /\ node'[p].parent = node[p].parent
                  /\ \A m \in Reachable \ (gone \cup {p}) : node'[m] = node[m]]_vars

\* a node was removed from under the root together with its child
C12_Witness ==
    /\ last.op = "remove_page"
    /\ last.err = "none"
    /\ root # None
    /\ \E m \in DOMAIN node \ Reachable :
           /\ node[m].children # <<>>
           /\ node[m].page_uuid = last.arg
           /\ node[m].page_uuid \notin DOMAIN pages
           /\ node[node[m].children[1]].page_uuid \notin DOMAIN pages

\* C13: add_page without a parent node on a tree that has a root fails and
\* leaves the root, the nodes and the repository as they were.
C13_SecondRootRefused ==
    [][\A page \in PageInputs :
           (/\ last'.op = "add_page"
            /\ add_page(page, None)
            /\ root # None) =>
               /\ last'.err # "none"
               /\ UNCHANGED treeVars]_vars

\* C14: add_page with a page whose id the repository holds fails, and the
\* repository, the root and every node stay as they were.
C14_DuplicatePageRefused ==
    [][\A page \in PageInputs, parent_node \in {None} \cup DOMAIN node :
           (/\ last'.op = "add_page"
            /\ page.uuid \in DOMAIN pages
            /\ add_page(page, parent_node)) =>
               /\ last'.err # "none"
               /\ pages' = pages
               /\ root' = root
               /\ node' = node]_vars

\* a page of a known id was refused on a tree with a root
C14_Witness ==
    /\ last.op = "add_page"
    /\ last.err = "ValueError"
    /\ last.arg \in DOMAIN pages
    /\ root # None

\* C15: add_page with a new page and a parent node puts a new node for the
\* page last among the children of the parent, with its parent link set, adds
\* the page to the repository and returns the new node.
C15_AddPageReturnsNode ==
    [][\A page \in PageInputs, parent_node \in DOMAIN node :
           (/\ last'.op = "add_page"
            /\ page.uuid \notin DOMAIN pages
            /\ add_page(page, parent_node)) =>
               LET new_node == Len(node) + 1
               IN /\ last'.err = "none"
                  /\ Len(node') = new_node
                  /\ node'[new_node].page_uuid = page.uuid
                  /\ node'[new_node].parent = parent_node
                  /\ node'[parent_node].children = node[parent_node].children \o <<new_node>>
                  /\ page.uuid \in DOMAIN pages'
                  /\ pages'[page.uuid] = page
                  /\ last'.ret = new_node]_vars

\* C16: after any sequence of add_page and remove_page calls on a tree that
\* starts empty, every node under the root carries a page id of the repository.
C16_ReachableNodesHavePages ==
    \A m \in Reachable : node[m].page_uuid \in DOMAIN pages

\* a subtree was removed and the root still has a child
C16_Witness ==
    /\ last.op = "remove_page"
    /\ last.err = "none"
    /\ root # None
    /\ node[root].children # <<>>

\* C17: remove_page with an id that no node under the root carries fails and
\* leaves the root, the nodes and the repository as they were.
C17_RemoveUnknownFails ==
    [][\A uuid \in UUIDs :
           (/\ last'.op = "remove_page"
            /\ last'.arg = uuid
            /\ remove_page(uuid)
            /\ Carriers(uuid) = {}) =>
               /\ last'.err # "none"
               /\ UNCHANGED treeVars]_vars

\* the id of a page that is in the repository but under no node of the tree was refused
C17_Witness ==
    /\ last.op = "remove_page"
    /\ last.err = "ValueError"
    /\ root # None
    /\ last.arg \in DOMAIN pages

\* C25: after any sequence of add_page and remove_page calls on a tree that
\* starts empty, the root has no parent, every other node under the root is
\* listed exactly once by its parent, and every child that a node under the
\* root lists has that node as its parent.
C25_ParentChildConsistent ==
    /\ root # None => node[root].parent = None
    /\ \A m \in Reachable \ {root} :
           /\ node[m].parent # None
           /\ Cardinality({ i \in 1 .. Len(node[node[m].parent].children) :
                              node[node[m].parent].children[i] = m }) = 1
    /\ \A m \in Reachable : \A i \in 1 .. Len(node[m].children) :
           node[node[m].children[i]].parent = m

\* a page was added under the root after a node made later than the root was
\* removed from under it
C25_Witness ==
    /\ last.op = "add_page"
    /\ last.err = "none"
    /\ root # None
    /\ node[root].children # <<>>
    /\ \E m \in DOMAIN node \ Reachable : m > root /\ node[m].parent = None

C19_AddThenSubRestores ==
    [][(/\ last.op = "__add__"
        /\ last'.op = "__sub__"
        /\ last'.arg[2] = last.arg[2]) =>
           last'.ret = last.arg[1]]_vars

\* C19, amended: subtracting b from a + b gives a again in every field in
\* which the sum of a and b lies within [-1, 1] (and is computed without rounding).
C19_AddThenSubRestoresUncapped ==
    [][(/\ last.op = "__add__"
        /\ last'.op = "__sub__"
        /\ last'.arg[2] = last.arg[2]) =>
           \A dimension \in Dimensions :
               (/\ last.arg[1][dimension] + last.arg[2][dimension] >= -Scale
                /\ last.arg[1][dimension] + last.arg[2][dimension] <= Scale) =>
                   last'.ret[dimension] = last.arg[1][dimension]]_vars

\* a value b other than zero was subtracted from a sum that had not been capped
C19_Witness ==
    /\ last.op = "__sub__"
    /\ last.arg[2].technology # 0
    /\ last.arg[1].technology # Scale
    /\ last.arg[1].technology # -Scale
    /\ last.ret.technology = last.arg[1].technology - last.arg[2].technology

\* ---------------------------------------------------------------- properties of documents
\* C20: TreeNode.to_dict(TreeNode.from_dict(doc)) is doc again, with the same
\* page ids, nesting and order of children, and in the node that from_dict
\* builds every child has the node that lists it as its parent.
C20_DocumentRoundTrip ==
    [][/\ last'.op = "from_dict" =>
              /\ node'[root'].parent = None
              /\ \A m \in DOMAIN node' : \A i \in 1 .. Len(node'[m].children) :
                     node'[node'[m].children[i]].parent = m
       /\ (last.op = "from_dict" /\ last'.op = "to_dict") =>
              last'.ret = last.arg]_vars

\* a document of a node with a child and a grandchild was written back
C20_Witness ==
    /\ last.op = "to_dict"
    /\ Len(last.ret.children) = 1
    /\ Len(last.ret.children[1].children) = 1
    /\ node[3].parent = 2

\* ---------------------------------------------------------------- properties of persisted trees
\* the values of "page_type" the persisted format lists
PageTypeValues == {"context", "start", "action", "end"}

\* the keys of a page and of a description in the persisted format
PageKeys == {"page_type", "action", "karma", "description", "image"}

DescriptionKeys == {"page", "image"}

\* a "pages" map in the persisted format: the five keys, one of the four
\* types, a description that is null or a text with an image caption
InSpecifiedFormat(pages_data) ==
    \A u \in DOMAIN pages_data :
        /\ DOMAIN pages_data[u] = PageKeys
        /\ pages_data[u].page_type \in PageTypeValues
        /\ \/ pages_data[u].description = null
           \/ DOMAIN pages_data[u].description[1] = DescriptionKeys

\* C21: a document in the persisted format (null descriptions and null images
\* included) is loaded without error, and saving the tree that was loaded
\* writes the document again: the same root and, for every page id, the same
\* fields with the same values.
C21_JsonRoundTrip ==
    [][/\ (last'.op = "from_json" /\ InSpecifiedFormat(last'.arg.pages)) =>
              last'.err = "none"
       /\ (last.op = "from_json" /\ last'.op = "to_json"
               /\ InSpecifiedFormat(last.arg.pages)) =>
              /\ last'.err = "none"
              /\ last'.ret = last.arg]_vars

\* ---------------------------------------------------------------- properties of PageRepository
\* C22: add_page with safe set and an id that is present fails and leaves the
\* stored page as it was; add_page without safe replaces the stored page;
\* remove_page of an absent id fails and changes nothing, of a present id it
\* deletes that entry and no other; get_page of an absent id returns None
\* without an error.
C22_RepositoryCalls ==
    [][/\ last'.op = "PageRepository.add_page" =>
              LET page == last'.arg[1]
                  safe == last'.arg[2]
              IN IF safe /\ page.uuid \in DOMAIN pages
                 THEN last'.err # "none" /\ pages' = pages
                 ELSE /\ last'.err = "none"
                      /\ DOMAIN pages' = DOMAIN pages \cup {page.uuid}
                      /\ pages'[page.uuid] = page
                      /\ \A u \in DOMAIN pages \ {page.uuid} : pages'[u] = pages[u]
       /\ last'.op = "PageRepository.remove_page" =>
              IF last'.arg \notin DOMAIN pages
              THEN last'.err # "none" /\ pages' = pages
              ELSE /\ last'.err = "none"
                   /\ DOMAIN pages' = DOMAIN pages \ {last'.arg}
                   /\ \A u \in DOMAIN pages' : pages'[u] = pages[u]
       /\ last'.op = "PageRepository.get_page" =>
              /\ last'.err = "none"
              /\ pages' = pages
              /\ IF last'.arg \in DOMAIN pages
                 THEN last'.ret = pages[last'.arg]
                 ELSE last'.ret = None]_vars

\* a page was refused under safe while the repository holds another page with its id
C22_Witness ==
    /\ last.op = "PageRepository.add_page"
    /\ last.err = "ValueError"
    /\ last.arg[2]
    /\ pages[last.arg[1].uuid] # last.arg[1]

\* ---------------------------------------------------------------- properties of the options
\* the label of a child: "Start " and the page id for a START page, the
\* action of the page otherwise
LabelOf(child) ==
    LET page == pages[node[child].page_uuid]
    IN IF page.page_type = "start" THEN "Start " \o ToString(page.uuid) ELSE page.action

\* C23: on a Path with a current node, view_action_options() returns a
\* mapping whose keys are exactly the labels of the children of the current
\* node; when the labels are distinct it has one entry for every child and
\* every label maps to its own child.
C23_OptionsAreChildLabels ==
    [][(last'.op = "view_action_options" /\ current_page_node # None) =>
           LET children == node[current_page_node].children
               labels == { LabelOf(children[i]) : i \in 1 .. Len(children) }
           IN /\ last'.err = "none"
              /\ DOMAIN last'.ret = labels
              /\ \A i \in 1 .. Len(children) :
                     last'.ret[LabelOf(children[i])] \in
                         { children[j] : j \in 1 .. Len(children) }
              /\ Cardinality(labels) = Len(children) =>
                     /\ Cardinality(DOMAIN last'.ret) = Len(children)
                     /\ \A i \in 1 .. Len(children) :
                            last'.ret[LabelOf(children[i])] = children[i]]_vars

\* the options of a node with a START child and another child were viewed
C23_Witness ==
    /\ last.op = "view_action_options"
    /\ last.err = "none"
    /\ current_page_node # None
    /\ Len(node[current_page_node].children) = 2
    /\ "go" \in DOMAIN last.ret
    /\ \E u \in UUIDs :
           /\ StartLabel(u) \in DOMAIN last.ret
           /\ node[last.ret[StartLabel(u)]].page_uuid = u

\* ---------------------------------------------------------------- properties of the Teller
\* the steps that generate a page
GenerationSteps == {"_generate_starting_page", "generate_current_page"}

\* C24: a step that generates a page calls the generator at most max_tries
\* times and makes no call after one that succeeded; when max_tries calls
\* were made and every one failed, the step ends with an error, and the tree,
\* its nodes and every page of the repository are as they were.
C24_BoundedRetries ==
    [][last'.op \in GenerationSteps =>
           LET made == last'.arg
           IN /\ Len(made) <= max_tries
              /\ \A i \in 1 .. Len(made) - 1 : made[i] = failure
              /\ (Len(made) = max_tries /\ \A i \in 1 .. Len(made) : made[i] = failure) =>
                     /\ last'.err # "none"
                     /\ UNCHANGED treeVars]_vars

\* the generation of the page under the root gave up after max_tries failed calls
C24_Witness ==
    /\ last.op = "generate_current_page"
    /\ Len(last.arg) = max_tries
    /\ \A i \in 1 .. max_tries : last.arg[i] = failure
    /\ last.err = "UnboundLocalError"
    /\ Len(pages_uuid) = 2

\* ---------------------------------------------------------------- properties of a loaded tree
\* the positions among the children of n whose node carries uuid
ChildrenCarrying(n, uuid) ==
    { i \in 1 .. Len(node[n].children) : node[node[n].children[i]].page_uuid = uuid }

\* C26: remove_node(id) on a node of which exactly one child carries id takes
\* that child out of the children list and keeps the other children in their
\* order, clears the parent link of the child, and returns the page ids of
\* the subtree of the child, one entry for every node of it.
C26_RemoveNodeDetachesChild ==
    [][(/\ last'.op = "remove_node"
        /\ Cardinality(ChildrenCarrying(last'.arg[1], last'.arg[2])) = 1) =>
           LET n == last'.arg[1]
               child == node[n].children[CHOOSE i \in ChildrenCarrying(n, last'.arg[2]) : TRUE]
           IN /\ last'.err = "none"
              /\ node'[n].children = SelectSeq(node[n].children, LAMBDA c : c # child)
              /\ node'[n].parent = node[n].parent
              /\ node'[child].parent = None
              /\ Len(last'.ret) = Cardinality(Subtree(child))
              /\ \A u \in UUIDs :
                     Cardinality({ i \in 1 .. Len(last'.ret) : last'.ret[i] = u })
                         = Cardinality({ m \in Subtree(child) : node[m].page_uuid = u })]_vars

\* a child with a child of its own was removed, and both have lost their parent links
C26_Witness ==
    /\ last.op = "remove_node"
    /\ Len(last.ret) = 2
    /\ last.ret[2] = last.arg[2]
    /\ node[last.arg[1]].children = <<>>
    /\ Cardinality({ m \in DOMAIN node : node[m].parent = None }) = 3

\* C27: remove_node(id) on a node of which no child carries id (a deeper
\* descendant may) raises nothing, returns the empty list and leaves every
\* children list and every parent link as it was.
C27_RemoveNodeMissIsNoOp ==
    [][(/\ last'.op = "remove_node"
        /\ ChildrenCarrying(last'.arg[1], last'.arg[2]) = {}) =>
           /\ last'.err = "none"
           /\ last'.ret = <<>>
           /\ node' = node
           /\ root' = root]_vars

\* the id of a grandchild was handed to remove_node and nothing was removed
C27_Witness ==
    /\ last.op = "remove_node"
    /\ last.ret = <<>>
    /\ \E i \in 1 .. Len(node[last.arg[1]].children) :
           LET child == node[last.arg[1]].children[i]
           IN \E j \in 1 .. Len(node[child].children) :
                  node[node[child].children[j]].page_uuid = last.arg[2]

\* the nodes under n, a node before its children and the children in list order
RECURSIVE Preorder(_)
Preorder(n) ==
    LET RECURSIVE over(_)
        over(children) ==
            IF children = <<>> THEN <<>> ELSE Preorder(Head(children)) \o over(Tail(children))
    IN <<n>> \o over(node[n].children)

\* C28: search_page_node(id) returns None when no node under the root carries
\* id (and on a tree without a root), and otherwise the first node that
\* carries id in depth-first pre-order with the children in list order; the
\* search changes nothing.
C28_SearchFindsFirstInPreorder ==
    [][last'.op = "search_page_node" =>
           /\ last'.err = "none"
           /\ UNCHANGED <<treeVars, pathVars>>
           /\ IF Carriers(last'.arg) = {}
              THEN last'.ret = None
              ELSE LET order == Preorder(root)
                       first == CHOOSE i \in 1 .. Len(order) :
                                    /\ node[order[i]].page_uuid = last'.arg
                                    /\ \A j \in 1 .. i - 1 : node[order[j]].page_uuid # last'.arg
                   IN last'.ret = order[first]]_vars

\* an id that two nodes under the root carry was searched for and found
C28_Witness ==
    /\ last.op = "search_page_node"
    /\ last.ret # None
    /\ node[last.ret].page_uuid = last.arg
    /\ Cardinality(Carriers(last.arg)) = 2

\* ---------------------------------------------------------------- properties of a finished Path
\* C29: on a tree whose END pages have no children, when the Path is finished
\* and its current page has type END, every take_action call fails and leaves
\* the Path as it was, while go_back succeeds and clears the finished flag.
C29_FinishedPathOnlyGoesBack ==
    [][(/\ pathOpen
        /\ is_finished
        /\ LastVisitedIsEnd
        /\ EndPagesAreLeaves) =>
           /\ last'.op = "take_action" =>
                  /\ last'.err # "none"
                  /\ UNCHANGED pathVars
           /\ last'.op = "go_back" =>
                  /\ last'.err = "none"
                  /\ is_finished' = FALSE]_vars

\* the node under the root that carries uuid
NodeOf(uuid) == search_page_node(uuid, root)

\* C30: once a Path exists, the visited list starts with the page id of the
\* root, the node of every later entry is a child of the node of the entry
\* before it, and from the second entry on the action recorded with an entry
\* is the label under which its node is offered by its parent.
C30_VisitedIsRootToCurrentChain ==
    pathOpen =>
        /\ pages_uuid # <<>>
        /\ pages_uuid[1] = node[root].page_uuid
        /\ Len(actions_taken) = Len(pages_uuid)
        /\ \A i \in 2 .. Len(pages_uuid) :
               /\ node[NodeOf(pages_uuid[i])].parent = NodeOf(pages_uuid[i - 1])
               /\ actions_taken[i] = LabelOf(NodeOf(pages_uuid[i]))
\* ---------------------------------------------------------------- properties of colliding labels
\* the children of n whose label is also the label of a later child of n
Shadowed(n) ==
    LET children == node[n].children
    IN { children[i] : i \in { k \in 1 .. Len(children) :
                                  \E j \in k + 1 .. Len(children) :
                                      LabelOf(children[j]) = LabelOf(children[k]) } }

\* the last child of n that carries the label
LastLabelled(n, label) ==
    LET children == node[n].children
        carrying == { k \in 1 .. Len(children) : LabelOf(children[k]) = label }
    IN children[CHOOSE k \in carrying : \A j \in carrying : j <= k]

\* C34: when two children of the current node have the same computed label,
\* view_action_options() has one entry for that label, mapped to the child
\* that was inserted later, take_action(label) moves to that later child, and
\* the Path is never on a child that a later sibling shadows.
C34_LaterChildShadowsEarlier ==
    [][/\ (last'.op = "view_action_options" /\ last'.err = "none") =>
              \A c \in Shadowed(current_page_node) :
                  /\ LabelOf(c) \in DOMAIN last'.ret
                  /\ last'.ret[LabelOf(c)] = LastLabelled(current_page_node, LabelOf(c))
                  /\ last'.ret[LabelOf(c)] # c
       /\ (last'.op = "take_action" /\ last'.err = "none") =>
              \A c \in Shadowed(current_page_node) :
                  last'.arg = LabelOf(c) =>
                      /\ current_page_node' = LastLabelled(current_page_node, LabelOf(c))
                      /\ current_page_node' # c
       /\ (pathOpen' /\ current_page_node' # None) =>
              \A n \in DOMAIN node : current_page_node' \notin Shadowed(n)]_vars

\* take_action moved the Path to the second of two children with one label
C34_Witness ==
    /\ last.op = "take_action"
    /\ last.err = "none"
    /\ current_page_node # None
    /\ node[current_page_node].parent # None
    /\ LET children == node[node[current_page_node].parent].children
       IN /\ Len(children) = 2
          /\ children[2] = current_page_node
          /\ LabelOf(children[1]) = last.arg
          /\ LabelOf(children[2]) = last.arg

\* ---------------------------------------------------------------- properties of the repository and the tree
\* the repository holds no orphan page: every page id is carried by a node
\* that is reachable from the root, and there is no page when there is no root
NoOrphans ==
    IF root = None
    THEN DOMAIN pages = {}
    ELSE \A uuid \in DOMAIN pages : \E n \in Reachable : node[n].page_uuid = uuid

\* C35: starting from an empty tree, after any sequence of add_page and
\* remove_page calls that complete without error the repository holds no
\* orphan page; stated call by call: the empty tree has no orphan, and a call
\* that completes without error on a tree without orphans leaves none.
C35_NoOrphanPages ==
    [][(NoOrphans /\ last'.op \in {"add_page", "remove_page"} /\ last'.err = "none")
           => NoOrphans']_vars

VisitedPageMissing == \E i \in 1 .. Len(pages_uuid) : pages_uuid[i] \notin DOMAIN pages

\* C31: once remove_page has deleted a page whose id is in the visited list
\* of the Path, compute_karma() fails with the not-found error instead of
\* returning a karma value, and leaves the history of the Path as it is.
C31_KarmaFailsOnRemovedPage ==
    [][(last'.op = "compute_karma" /\ VisitedPageMissing) =>
           /\ last'.err = "ValueError"
           /\ UNCHANGED pathVars]_vars

\* compute_karma failed on a Path whose current node was detached with the
\* page that remove_page deleted
C31_Witness ==
    /\ last.op = "compute_karma"
    /\ last.err = "ValueError"
    /\ Len(pages_uuid) >= 2
    /\ pages_uuid[Len(pages_uuid)] \notin DOMAIN pages
    /\ pages_uuid[1] \in DOMAIN pages
    /\ current_page_node # None
    /\ current_page_node \notin Reachable

\* C32: however the take_action and go_back calls of a Path are interleaved
\* with add_page and remove_page calls on its tree, the current node of the
\* Path is never None and get_current_page() returns a page that is in the
\* repository.
C32_CurrentPageAlwaysPresent ==
    /\ pathOpen => current_page_node # None
    /\ (pathOpen /\ current_page_node # None) =>
           node[current_page_node].page_uuid \in DOMAIN pages
    /\ last.op = "get_current_page" => last.err = "none"

\* ---------------------------------------------------------------- properties of two Paths over one tree
\* the fields of a Path object right after Path(tree)
SoloStart ==
    [pathOpen |-> TRUE, current_page_node |-> root,
     pages_uuid |-> <<node[root].page_uuid>>,
     actions_taken |-> <<pages[node[root].page_uuid].action>>,
     is_finished |-> FALSE]

\* the fields a lone Path object with the fields p has after take_action(action)
SoloTakeAction(p, action) ==
    LET children == IF p.current_page_node = None
                    THEN <<>>
                    ELSE node[p.current_page_node].children
        carrying == { k \in 1 .. Len(children) : LabelOf(children[k]) = action }
    IN IF carrying = {}
       THEN p
       ELSE LET child == children[CHOOSE k \in carrying : \A j \in carrying : j <= k]
            IN [pathOpen |-> TRUE, current_page_node |-> child,
                pages_uuid |-> Append(p.pages_uuid, node[child].page_uuid),
                actions_taken |-> Append(p.actions_taken, action),
                is_finished |-> (p.is_finished
                                   \/ pages[node[child].page_uuid].page_type = "end")]

\* the fields a lone Path object with the fields p has after go_back(), which
\* refuses a history of two pages and cannot pop an empty one
SoloGoBack(p) ==
    IF Len(p.pages_uuid) = 2 \/ p.pages_uuid = <<>> \/ p.current_page_node = None
    THEN p
    ELSE [pathOpen |-> TRUE, current_page_node |-> node[p.current_page_node].parent,
          pages_uuid |-> ButLast(p.pages_uuid),
          actions_taken |-> ButLast(p.actions_taken),
          is_finished |-> FALSE]

\* C33: two Paths opened on the same tree are independent: take_action and
\* go_back on one of them change neither the other Path's current node,
\* history lists and finished flag nor the tree, and what a call does to its
\* own Path is what it does to a lone Path with the same fields on that tree,
\* so that each Path reaches exactly the states it reaches as the only Path.
C33_PathsAreIndependent ==
    [][/\ last'.op \in {"take_action", "go_back"} =>
              /\ second_path' = second_path
              /\ UNCHANGED treeVars
       /\ (last'.op = "Path" /\ last'.err = "none") => this_path' = SoloStart
       /\ last'.op = "take_action" => this_path' = SoloTakeAction(this_path, last'.arg)
       /\ last'.op = "go_back" => this_path' = SoloGoBack(this_path)]_vars

\* both Paths are open and have moved apart: one went down to a child and
\* stands there, the other went down and came back up
C33_Witness ==
    /\ pathOpen
    /\ second_path.pathOpen
    /\ last.op \in {"take_action", "go_back"}
    /\ current_page_node # second_path.current_page_node
    /\ Len(pages_uuid) # Len(second_path.pages_uuid)
    /\ Len(pages_uuid) + Len(second_path.pages_uuid) >= 4

\* ---------------------------------------------------------------- properties of the state machine
\* the step is a call of StateMachine.handle_events on a current state, by
\* the caller or by the loop of the app
HandleEventsCall == last'.op \in {"handle_events", "_loop"} /\ current_state # null

\* a QuitEvent is among the events of the call
QuitDelivered(call) == \E i \in 1 .. Len(call.arg) : call.arg[i] = QuitEvent

\* the call of on_exit on the state that is current before the step
ExitOfCurrent(by) == [by |-> by, state |-> current_state[1].name, method |-> "on_exit"]

\* the state that is current before the step is current after it
SameStateIsCurrent ==
    /\ current_state' # null
    /\ current_state'[1].name = current_state[1].name
    /\ in_end_state' = in_end_state

C38_EndIsIdempotent ==
    [][/\ (last'.op = "end" /\ last.err = "none" /\ pathOpen) =>
              /\ in_end_state'
              /\ ~in_end_state =>
                     /\ current_state' = null
                     /\ last'.ret.calls = IF current_state = null
                                          THEN <<>>
                                          ELSE <<ExitOfCurrent("end")>>
              /\ in_end_state =>
                     /\ current_state' = current_state
                     /\ last'.ret.calls = <<>>
       /\ (running' /\ in_end_state') => current_state' = null]_vars

====
